---- MODULE Spec2Model ----
(***************************************************************************)
(* Invoice extraction service: the extraction pipeline of                  *)
(* backend/app/llm_service.py (GoogleLLMService) and the background job    *)
(* processDocument of backend/app/routes.py, with the store of             *)
(* app/models.py (SalesOrderHeader / SalesOrderDetail).                    *)
(*                                                                         *)
(* Amounts are integers in cents.  A text is a record: its trimmed length, *)
(* an identity (what hash() sees) and, per label pattern of                *)
(* _localExtraction, the ordered regex matches found in it.                *)
(***************************************************************************)
EXTENDS Integers, Sequences, FiniteSets, TLC

VARIABLES
    clientAvailable,   \* GoogleLLMService.clientAvailable
    easyocrAvailable,  \* GoogleLLMService.easyocrAvailable
    hashSeed,          \* the interpreter's string-hash seed of this process
    pc,                \* per job: position in processDocument
    doc,               \* per job: the uploaded document (filePath, fileType)
    appInstance,       \* per job: the appInstance argument of processDocument
    extractedData,     \* per job: result of llmService.extractInvoiceData
    data,              \* per job: the record the job emits and persists
    order,             \* per job: the local `order`, <<>> until it is built
    session,           \* per job: db.session, the uncommitted header and details
    events,            \* per job: the safe_socketio_emit calls made, in order
    emitRaised,        \* per job: some socketio.emit call of the job raised
    calls,             \* per job: the pipeline and store calls made, in order
    headers,           \* committed rows of sales_order_header
    details,           \* committed rows of sales_order_detail
    nextOrderId,       \* autoincrement of sales_order_header.order_id
    nextDetailId,      \* autoincrement of sales_order_detail.detail_id
    llmResponse,       \* per job: what the model answered to the job's extraction
    candidate,         \* the mapping handed to _cleanExtractedData
    cleanedData,       \* the outcome of _cleanExtractedData(candidate)
    recleaned,         \* the outcome of _cleanExtractedData on that outcome
    faults,            \* per job: the application context or a database call
                       \* raised for a reason outside the job's record
    ocrReader,         \* llmService.ocrReader: "None" or the job that created it
    sawReader,         \* per job: what its test of llmService.ocrReader found
    subject,           \* the input a function of the service is applied to
    runs               \* the outcomes of the calls made on it, in order

vars == <<clientAvailable, easyocrAvailable, hashSeed, pc, doc, appInstance,
          extractedData, data, order, session, events, emitRaised, calls, headers,
          details, nextOrderId, nextDetailId, llmResponse, candidate, cleanedData,
          recleaned, subject, runs, faults, ocrReader, sawReader>>

service == <<clientAvailable, easyocrAvailable, hashSeed>>
args == <<doc, appInstance>>
store == <<headers, details, nextOrderId, nextDetailId>>
normalizer == <<candidate, cleanedData, recleaned>>
harness == <<subject, runs>>
reader == <<ocrReader, sawReader>>

\* the uploads; those of Jobs run in the job specification
AllJobs == {"j1", "j2"}
Jobs == {"j1"}

(***************************************************************************)
(* Bounds of the model.                                                    *)
(***************************************************************************)
\* how many of the sampleProducts the random sample of the fallback generator
\* draws from in the job specification
MaxSampleProducts == 2

(***************************************************************************)
(* Values of loosely typed JSON fields.                                    *)
(***************************************************************************)
Num(n) == [k |-> "num", n |-> n]
Null == [k |-> "null", n |-> 0]
Junk == [k |-> "junk", n |-> 0]
NullStr == "<None>"
\* a numeric string such as "12.50" (for a quantity, an integer literal "4")
NumStr(n) == [k |-> "numstr", n |-> n]
\* a quantity given as a float with a fractional part, n its integer part
Frac(n) == [k |-> "frac", n |-> n]

\* dict.get(key, default)
Get(d, key, default) == IF key \in DOMAIN d THEN d[key] ELSE default

\* float(v) / int(v) raise TypeError on None and ValueError on a non-numeric string
FloatRaises(v) == v.k \notin {"num", "numstr"}
Float(v) == v.n
IntRaises(v) == v.k \notin {"num", "numstr", "frac"}
\* int() truncates a float towards zero
IntOf(v) == v.n

RECURSIVE SumSeq(_)
SumSeq(s) == IF s = <<>> THEN 0 ELSE Head(s) + SumSeq(Tail(s))

Last(s) == s[Len(s)]

Pad2(n) == IF n < 10 THEN "0" \o ToString(n) ELSE ToString(n)
Pad4(n) ==
    IF n < 10 THEN "000" \o ToString(n)
    ELSE IF n < 100 THEN "00" \o ToString(n)
    ELSE IF n < 1000 THEN "0" \o ToString(n)
    ELSE ToString(n)

(***************************************************************************)
(* Texts.                                                                  *)
(***************************************************************************)
Text(id, len, h, names, invs, totals, dates) ==
    [id |-> id, len |-> len, h |-> h, names |-> names, invs |-> invs,
     totals |-> totals, dates |-> dates]

EmptyText == Text("", 0, 0, <<>>, <<>>, <<>>, <<>>)

\* documentText[:n]
Prefix(t, n) == [id |-> t.id, len |-> IF t.len < n THEN t.len ELSE n]

(***************************************************************************)
(* Documents: what the file yields to each external capability.  An        *)
(* outcome is the text a capability returns, or that it raises.            *)
(***************************************************************************)
Returns(t) == [raises |-> FALSE, text |-> t]
Raises == [raises |-> TRUE, text |-> EmptyText]

Document(fileType, native, ocr, vision) ==
    [fileType |-> fileType, native |-> native, ocr |-> ocr, vision |-> vision]

(***************************************************************************)
(* GoogleLLMService: text extraction.                                      *)
(***************************************************************************)
\* "text and len(text.strip()) > n"
LongerThan(t, n) == t.len > n

_extractViaGeminiVision(d, client) ==
    IF ~client THEN EmptyText
    ELSE IF d.vision.raises THEN EmptyText
    ELSE d.vision.text

\* what a call that raises instead of returning a string leaves
Propagates == Text("<exception>", 0, 0, <<>>, <<>>, <<>>, <<>>)

\* an image extraction that returns whatever the OCR read
extractTextFromImageOcrOnly(d, ocrAvail, client) ==
    IF ~ocrAvail THEN _extractViaGeminiVision(d, client)
    ELSE IF d.ocr.raises THEN _extractViaGeminiVision(d, client)
    ELSE d.ocr.text

\* an image extraction without the try/except around the OCR
extractTextFromImageUncaught(d, ocrAvail, client) ==
    IF ~ocrAvail THEN _extractViaGeminiVision(d, client)
    ELSE IF d.ocr.raises THEN Propagates
    ELSE IF LongerThan(d.ocr.text, 10) THEN d.ocr.text
    ELSE _extractViaGeminiVision(d, client)

extractTextFromImage(d, ocrAvail, client) ==
    IF ~ocrAvail THEN _extractViaGeminiVision(d, client)
    ELSE IF d.ocr.raises THEN _extractViaGeminiVision(d, client)
    ELSE IF LongerThan(d.ocr.text, 10) THEN d.ocr.text
    ELSE _extractViaGeminiVision(d, client)

\* a PDF extraction that prefers the OCR text whenever there is one
extractTextFromPdfPreferringOcr(d, ocrAvail) ==
    IF ocrAvail /\ ~d.ocr.raises /\ LongerThan(d.ocr.text, 100) THEN d.ocr.text
    ELSE d.native.text

\* a PDF extraction that returns nothing when the OCR did not do better
extractTextFromPdfDroppingPartial(d, ocrAvail) ==
    IF LongerThan(d.native.text, 100) THEN d.native.text
    ELSE IF ocrAvail /\ ~d.ocr.raises /\ LongerThan(d.ocr.text, 100)
         THEN d.ocr.text
    ELSE EmptyText

\* d.ocr.text is ocrText as the loop assembles it from the pages read, the
\* "--- Page n ---" markers included; len is the length after strip().
extractTextFromPdf(d, ocrAvail) ==
    LET text == d.native.text   \* what was read before any failure
    IN  IF LongerThan(text, 100) THEN text
        ELSE IF ocrAvail /\ ~d.ocr.raises /\ LongerThan(d.ocr.text, 100)
             THEN d.ocr.text
        ELSE IF text.len > 0 THEN text
        ELSE EmptyText

extractTextFromDocument(d, ocrAvail, client) ==
    IF d.fileType = "pdf" THEN extractTextFromPdf(d, ocrAvail)
    ELSE extractTextFromImage(d, ocrAvail, client)

\* The steps a call goes through, in order: "native" (PyPDF2 reads the text
\* layer), "ocr" (the OCR block is entered: rasterizer, reader, readtext),
\* "_extractViaGeminiVision" (the method is called) and "generate_content"
\* (it reaches the model).
_extractViaGeminiVisionSteps(d, client) ==
    <<"_extractViaGeminiVision">>
        \o (IF client THEN <<"generate_content">> ELSE <<>>)

extractTextFromImageSteps(d, ocrAvail, client) ==
    IF ~ocrAvail THEN _extractViaGeminiVisionSteps(d, client)
    ELSE IF d.ocr.raises THEN <<"ocr">> \o _extractViaGeminiVisionSteps(d, client)
    ELSE IF LongerThan(d.ocr.text, 10) THEN <<"ocr">>
    ELSE <<"ocr">> \o _extractViaGeminiVisionSteps(d, client)

extractTextFromPdfSteps(d, ocrAvail) ==
    IF LongerThan(d.native.text, 100) THEN <<"native">>
    ELSE IF ocrAvail THEN <<"native", "ocr">>
    ELSE <<"native">>

extractTextFromDocumentSteps(d, ocrAvail, client) ==
    IF d.fileType = "pdf" THEN extractTextFromPdfSteps(d, ocrAvail)
    ELSE extractTextFromImageSteps(d, ocrAvail, client)

(***************************************************************************)
(* datetime.strptime over the date strings of the model.                   *)
(***************************************************************************)
DateStr(s, sep, p, w) == [s |-> s, sep |-> sep, p |-> p, w |-> w]

\* the date strings that occur, split at their separator: the numbers and
\* how many digits each has
DateTable ==
    { DateStr("01/15/2024", "/", <<1, 15, 2024>>, <<2, 2, 4>>),
      DateStr("15/01/2024", "/", <<15, 1, 2024>>, <<2, 2, 4>>),
      DateStr("03/04/2024", "/", <<3, 4, 2024>>, <<2, 2, 4>>),
      DateStr("01-15-2024", "-", <<1, 15, 2024>>, <<2, 2, 4>>),
      DateStr("15-01-2024", "-", <<15, 1, 2024>>, <<2, 2, 4>>),
      DateStr("13/13/2024", "/", <<13, 13, 2024>>, <<2, 2, 4>>),
      DateStr("01/15/24", "/", <<1, 15, 24>>, <<2, 2, 2>>) }
    \cup { DateStr("2024-01-" \o Pad2(d), "-", <<2024, 1, d>>, <<4, 2, 2>>) :
             d \in 1..31 }

IsDateStr(s) == \E r \in DateTable : r.s = s
DateParts(s) == CHOOSE r \in DateTable : r.s = s

Format(f) ==
    CASE f = "%Y-%m-%d" -> [sep |-> "-", ord |-> <<"Y", "m", "d">>]
      [] f = "%d/%m/%Y" -> [sep |-> "/", ord |-> <<"d", "m", "Y">>]
      [] f = "%m/%d/%Y" -> [sep |-> "/", ord |-> <<"m", "d", "Y">>]
      [] f = "%d-%m-%Y" -> [sep |-> "-", ord |-> <<"d", "m", "Y">>]
      [] f = "%m-%d-%Y" -> [sep |-> "-", ord |-> <<"m", "d", "Y">>]

FieldOk(dir, n, w) ==
    CASE dir = "Y" -> w = 4
      [] dir = "m" -> w <= 2 /\ n \in 1..12
      [] dir = "d" -> w <= 2 /\ n \in 1..31

\* datetime.strptime(s, f) succeeds
Parses(s, f) ==
    /\ IsDateStr(s)
    /\ LET r == DateParts(s)
           fm == Format(f)
       IN  /\ r.sep = fm.sep
           /\ \A i \in 1..3 : FieldOk(fm.ord[i], r.p[i], r.w[i])

Field(s, f, dir) ==
    LET r == DateParts(s)
        fm == Format(f)
        i == CHOOSE i \in 1..3 : fm.ord[i] = dir
    IN  r.p[i]

\* datetime.strptime(s, f).strftime('%Y-%m-%d') / .date().isoformat()
IsoOf(s, f) ==
    ToString(Field(s, f, "Y")) \o "-" \o Pad2(Field(s, f, "m")) \o "-"
        \o Pad2(Field(s, f, "d"))

\* the first format of fmts, in order, that parses s; 0 when none does
RECURSIVE FirstParse(_, _, _)
FirstParse(s, fmts, i) ==
    IF i > Len(fmts) THEN 0
    ELSE IF Parses(s, fmts[i]) THEN i
    ELSE FirstParse(s, fmts, i + 1)

(***************************************************************************)
(* GoogleLLMService._localExtraction: rule-based extraction.               *)
(***************************************************************************)
Abs(n) == IF n < 0 THEN -n ELSE n

\* hash(text): a function of the string and of the process's hash seed
PyHash(t, seed) ==
    (t.h * (2 * seed + 1) + 7001 * seed) * (IF (t.h + seed) % 2 = 0 THEN 1 ELSE -1)

\* f"INV-{abs(hash(text)) % 10000:04d}"
HashInvoiceNumber(t, seed) == "INV-" \o Pad4(Abs(PyHash(t, seed)) % 10000)

\* the amount strings that occur, with float(s.replace(',', '')) in cents;
\* any other match (such as ",") makes float() raise
AmountTable ==
    { [s |-> "1,200.00", v |-> 120000], [s |-> "950.00", v |-> 95000],
      [s |-> "30", v |-> 3000] }

IsAmount(s) == \E r \in AmountTable : r.s = s
AmountOf(s) == (CHOOSE r \in AmountTable : r.s = s).v

\* a format list that tries the day first
DayFirstFormats == <<"%d/%m/%Y", "%m/%d/%Y", "%d-%m-%Y", "%Y-%m-%d", "%m-%d-%Y">>

LocalFormats == <<"%m/%d/%Y", "%d/%m/%Y", "%m-%d-%Y", "%Y-%m-%d", "%d-%m-%Y">>

\* the matches that carry white space around them, with s.strip(); any
\* other match is its own strip()
StripTable ==
    { [s |-> "  Acme Corp ", v |-> "Acme Corp"],
      [s |-> "Bolt Ltd  ", v |-> "Bolt Ltd"] }

strip(s) ==
    IF \E r \in StripTable : r.s = s
    THEN (CHOOSE r \in StripTable : r.s = s).v
    ELSE s

\* a rule-based extraction that takes every field from its first match
_localExtractionOfFirstMatches(t, seed) ==
    LET dateStr == strip(Head(t.dates))
        f == FirstParse(dateStr, LocalFormats, 1)
    IN  [customer_name |-> IF t.names # <<>> THEN strip(Head(t.names)) ELSE "",
         customer_email |-> "",
         order_date |->
             IF t.dates = <<>> THEN ""
             ELSE IF f > 0 THEN IsoOf(dateStr, LocalFormats[f])
             ELSE dateStr,
         invoice_number |->
             IF t.invs # <<>> THEN strip(Head(t.invs))
             ELSE HashInvoiceNumber(t, seed),
         total_amount |->
             IF t.totals # <<>> /\ IsAmount(Head(t.totals))
             THEN Num(AmountOf(Head(t.totals)))
             ELSE Num(0),
         tax_amount |-> Num(0),
         shipping_address |-> "",
         billing_address |-> "",
         order_details |-> [k |-> "list", items |-> <<>>]]

_localExtraction(t, seed) ==
    LET dateStr == strip(Last(t.dates))
        f == FirstParse(dateStr, LocalFormats, 1)
    IN  [customer_name |-> IF t.names # <<>> THEN strip(Head(t.names)) ELSE "",
         customer_email |-> "",
         order_date |->
             IF t.dates = <<>> THEN ""
             ELSE IF f > 0 THEN IsoOf(dateStr, LocalFormats[f])
             ELSE dateStr,
         invoice_number |->
             IF t.invs # <<>> THEN strip(Head(t.invs))
             ELSE HashInvoiceNumber(t, seed),
         total_amount |->
             IF t.totals # <<>> /\ IsAmount(Last(t.totals))
             THEN Num(AmountOf(Last(t.totals)))
             ELSE Num(0),
         tax_amount |-> Num(0),
         shipping_address |-> "",
         billing_address |-> "",
         order_details |-> [k |-> "list", items |-> <<>>]]

(***************************************************************************)
(* GoogleLLMService._cleanExtractedData: the normalizer.                   *)
(***************************************************************************)
IsDict(e) == "nondict" \notin DOMAIN e
NonDict == [nondict |-> TRUE]

\* the detail dicts of data.get("order_details", []) that the loop visits
DetailDicts(d) ==
    LET od == Get(d, "order_details", [k |-> "list", items |-> <<>>])
    IN  IF od.k = "list" THEN SelectSeq(od.items, IsDict) ELSE <<>>

DetailRaises(e) ==
    \/ IntRaises(Get(e, "quantity", Num(1)))
    \/ FloatRaises(Get(e, "unit_price", Num(0)))
    \/ FloatRaises(Get(e, "line_total", Num(0)))

\* _cleanExtractedData(d) raises (TypeError or ValueError of float() / int())
CleanRaises(d) ==
    \/ FloatRaises(Get(d, "total_amount", Num(0)))
    \/ FloatRaises(Get(d, "tax_amount", Num(0)))
    \/ \E i \in 1..Len(DetailDicts(d)) : DetailRaises(DetailDicts(d)[i])

\* a loop body without the recomputation of a zero line_total
CleanDetailAsGiven(e) ==
    [product_name |-> Get(e, "product_name", "Unknown Product"),
     product_code |-> Get(e, "product_code", ""),
     quantity |-> Num(IntOf(Get(e, "quantity", Num(1)))),
     unit_price |-> Num(Float(Get(e, "unit_price", Num(0)))),
     line_total |-> Num(Float(Get(e, "line_total", Num(0)))),
     description |-> Get(e, "description", "")]

CleanDetail(e) ==
    LET quantity == IntOf(Get(e, "quantity", Num(1)))
        unit_price == Float(Get(e, "unit_price", Num(0)))
        line_total == Float(Get(e, "line_total", Num(0)))
    IN  [product_name |-> Get(e, "product_name", "Unknown Product"),
         product_code |-> Get(e, "product_code", ""),
         quantity |-> Num(quantity),
         unit_price |-> Num(unit_price),
         line_total |-> Num(IF line_total = 0 THEN quantity * unit_price
                            ELSE line_total),
         description |-> Get(e, "description", "")]

CleanDetails(d) ==
    [i \in 1..Len(DetailDicts(d)) |-> CleanDetail(DetailDicts(d)[i])]

\* str(data) as hash() sees it: a number that depends on the dict's content
StrH(d) == Cardinality(DOMAIN d) + 17 * Len(DetailDicts(d))

LineTotals(items) == [i \in 1..Len(items) |-> items[i].line_total.n]

\* the header fields of the cleaned record other than total_amount
CleanedWithTotal(d, seed, total_amount) ==
    [customer_name |-> Get(d, "customer_name", "Unknown Customer"),
     customer_email |-> Get(d, "customer_email", ""),
     order_date |-> Get(d, "order_date", ""),
     invoice_number |->
         Get(d, "invoice_number", HashInvoiceNumber([h |-> StrH(d)], seed)),
     total_amount |-> Num(total_amount),
     tax_amount |-> Num(Float(Get(d, "tax_amount", Num(0)))),
     shipping_address |-> Get(d, "shipping_address", ""),
     billing_address |-> Get(d, "billing_address", ""),
     order_details |-> [k |-> "list", items |-> CleanDetails(d)]]

\* a normalizer that adds the tax to whatever total it finds
_cleanAddingTax(d, seed) ==
    CleanedWithTotal(d, seed,
                     Float(Get(d, "total_amount", Num(0)))
                     + Float(Get(d, "tax_amount", Num(0))))

\* a normalizer that recomputes the total whenever there are line items
_cleanAlwaysRecomputing(d, seed) ==
    CleanedWithTotal(d, seed,
                     IF CleanDetails(d) # <<>>
                     THEN SumSeq(LineTotals(CleanDetails(d)))
                          + Float(Get(d, "tax_amount", Num(0)))
                     ELSE Float(Get(d, "total_amount", Num(0))))

_cleanExtractedData(d, seed) ==
    LET items == CleanDetails(d)
        total == Float(Get(d, "total_amount", Num(0)))
        tax == Float(Get(d, "tax_amount", Num(0)))
    IN  [customer_name |-> Get(d, "customer_name", "Unknown Customer"),
         customer_email |-> Get(d, "customer_email", ""),
         order_date |-> Get(d, "order_date", ""),
         invoice_number |->
             Get(d, "invoice_number",
                 HashInvoiceNumber([h |-> StrH(d)], seed)),
         total_amount |->
             Num(IF total = 0 /\ items # <<>>
                 THEN SumSeq(LineTotals(items)) + tax
                 ELSE total),
         tax_amount |-> Num(tax),
         shipping_address |-> Get(d, "shipping_address", ""),
         billing_address |-> Get(d, "billing_address", ""),
         order_details |-> [k |-> "list", items |-> items]]

(***************************************************************************)
(* GoogleLLMService._generateFallbackData: the synthetic sample record.    *)
(* rnd holds the draws of the random module: num = randint(1000, 9999),    *)
(* days = randint(1, 30), sample = random.sample(sampleProducts, k).       *)
(***************************************************************************)
sampleProducts ==
    << [name |-> "Product XYZ", code |-> "23423423", price |-> 15000, qty |-> 15],
       [name |-> "Product ABC", code |-> "45645645", price |-> 7500, qty |-> 1],
       [name |-> "Web Development Service", code |-> "WEB-001", price |-> 500000,
        qty |-> 1],
       [name |-> "Consulting Hours", code |-> "CONS-001", price |-> 15000,
        qty |-> 40] >>

\* round(x, 2) of an amount whose value in cents is num / den (half to even)
RoundDiv(num, den) ==
    LET q == num \div den
        r == num % den
    IN  IF 2 * r < den THEN q
        ELSE IF 2 * r > den THEN q + 1
        ELSE IF q % 2 = 0 THEN q ELSE q + 1

\* (datetime.now() - timedelta(days)).strftime('%Y-%m-%d'), today 2024-01-31
DaysAgo(days) == "2024-01-" \o Pad2(31 - days)

FallbackDetail(i) ==
    LET product == sampleProducts[i]
    IN  [product_name |-> product.name,
         product_code |-> product.code,
         quantity |-> Num(product.qty),
         unit_price |-> Num(product.price),
         line_total |-> Num(product.price * product.qty),
         description |-> "Sample " \o product.name \o " description"]

\* a synthetic record whose total leaves the tax out
_generateFallbackDataWithoutTax(rnd) ==
    LET orderDetails == [i \in 1..Len(rnd.sample) |-> FallbackDetail(rnd.sample[i])]
        subtotal == SumSeq(LineTotals(orderDetails))
        taxAmount == RoundDiv(subtotal * 11, 160)
    IN  [customer_name |-> "Sample Customer",
         customer_email |-> "customer@example.com",
         order_date |-> DaysAgo(rnd.days),
         invoice_number |-> "INV-FALLBACK-" \o ToString(rnd.num),
         total_amount |-> Num(subtotal),
         tax_amount |-> Num(taxAmount),
         shipping_address |-> "123 Main St, City, State, ZIP",
         billing_address |-> "123 Main St, City, State, ZIP",
         order_details |-> [k |-> "list", items |-> orderDetails]]

_generateFallbackData(rnd) ==
    LET orderDetails == [i \in 1..Len(rnd.sample) |-> FallbackDetail(rnd.sample[i])]
        subtotal == SumSeq(LineTotals(orderDetails))
        \* taxRate = 0.06875 = 11 / 160
        taxAmount == RoundDiv(subtotal * 11, 160)
        totalAmount == subtotal + taxAmount
    IN  [customer_name |-> "Sample Customer",
         customer_email |-> "customer@example.com",
         order_date |-> DaysAgo(rnd.days),
         invoice_number |-> "INV-FALLBACK-" \o ToString(rnd.num),
         total_amount |-> Num(totalAmount),
         tax_amount |-> Num(taxAmount),
         shipping_address |-> "123 Main St, City, State, ZIP",
         billing_address |-> "123 Main St, City, State, ZIP",
         order_details |-> [k |-> "list", items |-> orderDetails]]

(***************************************************************************)
(* GoogleLLMService.callLlmApi and _parseJsonResponse.  A model response   *)
(* is: the call raises; no text; or a text.  A text is a sequence of       *)
(* tokens:                                                                 *)
(*   Fence  a code fence (three backticks)   NL  a line break              *)
(*   "{" "}" braces                 "m"   the members of an object         *)
(*   "k"    a key and its colon     "p"   prose without brace or fence     *)
(*   "P"    300 characters of prose                                        *)
(*   "D"    arrays nested deeper than the interpreter's recursion limit    *)
(* and value is the dict the members "m" stand for.                        *)
(***************************************************************************)
LlmRaises == [kind |-> "raises"]
LlmEmpty == [kind |-> "empty"]
\* no call was made
NoResponse == [kind |-> "none"]
LlmText(tokens, value) == [kind |-> "text", tokens |-> tokens, value |-> value]

Fence == "<fence>"
NL == "\n"

\* len(text)
TokenChars(tok) ==
    CASE tok = Fence -> 3
      [] tok = "m" -> 5
      [] tok = "k" -> 4
      [] tok = "p" -> 12
      [] tok = "P" -> 300
      [] tok = "D" -> 2000
      [] OTHER -> 1

RECURSIVE Chars(_)
Chars(text) == IF text = <<>> THEN 0 ELSE TokenChars(Head(text)) + Chars(Tail(text))

\* text.strip()
RECURSIVE Strip(_)
Strip(text) ==
    IF text = <<>> THEN text
    ELSE IF Head(text) = NL THEN Strip(Tail(text))
    ELSE IF Last(text) = NL THEN Strip(SubSeq(text, 1, Len(text) - 1))
    ELSE text

\* text.find(tok) and text.rfind(tok), counted from 1; 0 where Python gives -1
Find(text, tok) ==
    IF \E i \in 1..Len(text) : text[i] = tok
    THEN CHOOSE i \in 1..Len(text) :
             text[i] = tok /\ \A h \in 1..(i - 1) : text[h] # tok
    ELSE 0

RFind(text, tok) ==
    IF \E i \in 1..Len(text) : text[i] = tok
    THEN CHOOSE i \in 1..Len(text) :
             text[i] = tok /\ \A h \in (i + 1)..Len(text) : text[h] # tok
    ELSE 0

\* text.rfind(NL + Fence)
RFindFenceLine(text) ==
    LET at == { i \in 1..(Len(text) - 1) : text[i] = NL /\ text[i + 1] = Fence }
    IN  IF at = {} THEN 0 ELSE CHOOSE i \in at : \A h \in at : h <= i

\* if text.startswith(Fence): drop through the first line break, or the fence
StripLeadingFence(text) ==
    IF text # <<>> /\ Head(text) = Fence
    THEN IF Find(text, NL) # 0
         THEN Strip(SubSeq(text, Find(text, NL) + 1, Len(text)))
         ELSE Strip(Tail(text))
    ELSE text

\* if text.endswith(Fence): text[:-3].strip()
StripTrailingFence(text) ==
    IF text # <<>> /\ Last(text) = Fence
    THEN Strip(SubSeq(text, 1, Len(text) - 1))
    ELSE text

\* if NL + Fence in text: text[:text.rfind(NL + Fence)].strip()
CutAtFenceLine(text) ==
    IF RFindFenceLine(text) # 0
    THEN Strip(SubSeq(text, 1, RFindFenceLine(text) - 1))
    ELSE text

\* json.loads: the outcome of scanning an object that starts at w[i]
Parsed(v, next) == [k |-> "ok", v |-> v, next |-> next]
JSONDecodeError == [k |-> "JSONDecodeError", v |-> <<>>, next |-> 0]
RecursionError == [k |-> "RecursionError", v |-> <<>>, next |-> 0]

IsJsonText(tok) == tok # NL

RECURSIVE ScanObject(_, _, _)
ScanObject(w, i, value) ==
    IF i + 1 > Len(w) \/ w[i] # "{" THEN JSONDecodeError
    ELSE IF w[i + 1] = "}" THEN Parsed(<<>>, i + 2)
    ELSE IF w[i + 1] = "m"
    THEN IF i + 2 <= Len(w) /\ w[i + 2] = "}"
         THEN Parsed(value, i + 3)
         ELSE JSONDecodeError
    ELSE IF w[i + 1] = "k" /\ i + 2 <= Len(w)
    THEN IF w[i + 2] = "D" THEN RecursionError
         ELSE IF w[i + 2] = "{"
         THEN LET inner == ScanObject(w, i + 2, value)
              IN  IF inner.k # "ok" THEN inner
                  ELSE IF inner.next <= Len(w) /\ w[inner.next] = "}"
                  THEN Parsed([k |-> inner.v], inner.next + 1)
                  ELSE JSONDecodeError
         ELSE JSONDecodeError
    ELSE JSONDecodeError

loads(jsonStr, value) ==
    LET w == SelectSeq(jsonStr, IsJsonText)
        scanned == ScanObject(w, 1, value)
    IN  IF scanned.k = "ok" /\ scanned.next # Len(w) + 1
        THEN JSONDecodeError   \* Extra data
        ELSE scanned

\* what a call leaves: the dict it returns, or the exception it raises
Returned(v) == [raises |-> FALSE, value |-> v]
Raised(e) == [raises |-> TRUE, value |-> [error |-> e]]

\* text[:200], by its length
Preview(text) == IF Chars(text) < 200 THEN Chars(text) ELSE 200

\* the steps before the search for the braces
Unfenced(text) == CutAtFenceLine(StripTrailingFence(StripLeadingFence(Strip(text))))

_parseJsonResponse(r) ==
    LET text == Unfenced(r.tokens)
        startIdx == Find(text, "{")
        endIdx == RFind(text, "}")
        parsed == loads(SubSeq(text, startIdx, endIdx), r.value)
        fixed == loads(Append(SubSeq(text, startIdx, Len(text)), "}"), r.value)
        NoValidJson == Returned([error |-> "No valid JSON found in response",
                                 raw_response |-> Preview(text)])
    IN  IF startIdx > 0 /\ endIdx > startIdx
        THEN CASE parsed.k = "ok" -> Returned(parsed.v)
               [] parsed.k = "JSONDecodeError" ->
                      Returned([error |-> "Failed to parse JSON",
                                raw_response |-> Preview(text)])
               [] OTHER -> Raised(parsed.k)
        ELSE IF startIdx > 0 /\ endIdx = 0
        THEN CASE fixed.k = "ok" -> Returned(fixed.v)
               [] fixed.k = "JSONDecodeError" -> NoValidJson
               [] OTHER -> Raised(fixed.k)
        ELSE NoValidJson

callLlmApi(r, client) ==
    IF ~client THEN [error |-> "Google API not available"]
    ELSE IF r.kind = "raises" THEN [error |-> "exception"]
    ELSE IF r.kind = "empty" THEN [error |-> "No response from Google API"]
    ELSE IF _parseJsonResponse(r).raises THEN [error |-> "exception"]
    ELSE _parseJsonResponse(r).value

(***************************************************************************)
(* GoogleLLMService.extractInvoiceData.  Returns the dict and, as          *)
(* history, the calls it made.                                             *)
(***************************************************************************)
HasKey(d, key) == key \in DOMAIN d

WithPreview(cleaned, t) ==
    [key \in DOMAIN cleaned \cup {"extracted_text_preview"} |->
        IF key = "extracted_text_preview" THEN Prefix(t, 500) ELSE cleaned[key]]

\* an extractInvoiceData that answers a failed model call with the synthetic
\* record instead of the rule-based extraction
extractInvoiceDataWithoutRules(d, r, rnd, ocrAvail, client, seed) ==
    LET documentText == extractTextFromDocument(d, ocrAvail, client)
        result == callLlmApi(r, client)
    IN  IF documentText.len < 10
        THEN [ret |-> [error |-> "Could not extract sufficient text from document.",
                       fallback_data |-> _generateFallbackData(rnd),
                       extracted_text_preview |-> Prefix(EmptyText, 500)],
              calls |-> <<"extractTextFromDocument", "_generateFallbackData">>]
        ELSE IF client /\ ~HasKey(result, "error") /\ ~CleanRaises(result)
        THEN [ret |-> WithPreview(_cleanExtractedData(result, seed), documentText),
              calls |-> <<"extractTextFromDocument", "callLlmApi",
                          "_cleanExtractedData">>]
        ELSE [ret |-> [error |-> "exception",
                       fallback_data |-> _generateFallbackData(rnd)],
              calls |-> <<"extractTextFromDocument", "callLlmApi",
                          "_generateFallbackData">>]

\* an extractInvoiceData without the minimum-length test
extractInvoiceDataOfAnyText(d, r, rnd, ocrAvail, client, seed) ==
    LET documentText == extractTextFromDocument(d, ocrAvail, client)
        result == callLlmApi(r, client)
        localData == _localExtraction(documentText, seed)
    IN  IF client /\ ~HasKey(result, "error") /\ ~CleanRaises(result)
        THEN [ret |-> WithPreview(_cleanExtractedData(result, seed), documentText),
              calls |-> <<"extractTextFromDocument", "callLlmApi",
                          "_cleanExtractedData">>]
        ELSE [ret |-> WithPreview(_cleanExtractedData(localData, seed),
                                  documentText),
              calls |-> <<"extractTextFromDocument", "callLlmApi",
                          "_localExtraction", "_cleanExtractedData">>]

\* an extractInvoiceData that reports too little text without a synthetic
\* record
extractInvoiceDataWithoutFallback(d, r, rnd, ocrAvail, client, seed) ==
    LET documentText == extractTextFromDocument(d, ocrAvail, client)
        localData == _localExtraction(documentText, seed)
    IN  IF documentText.len < 10
        THEN [ret |-> [error |-> "Could not extract sufficient text from document.",
                       extracted_text_preview |-> Prefix(EmptyText, 500)],
              calls |-> <<"extractTextFromDocument">>]
        ELSE [ret |-> WithPreview(_cleanExtractedData(localData, seed),
                                  documentText),
              calls |-> <<"extractTextFromDocument", "_localExtraction",
                          "_cleanExtractedData">>]

\* lines 354-392
extractInvoiceData(d, r, rnd, ocrAvail, client, seed) ==
    LET documentText == extractTextFromDocument(d, ocrAvail, client)
        result == callLlmApi(r, client)
        localData == _localExtraction(documentText, seed)
    IN  IF documentText.len < 10
        THEN [ret |-> [error |-> "Could not extract sufficient text from document.",
                       fallback_data |-> _generateFallbackData(rnd),
                       extracted_text_preview |-> Prefix(EmptyText, 500)],
              calls |-> <<"extractTextFromDocument", "_generateFallbackData">>]
        ELSE IF client /\ ~HasKey(result, "error")
        THEN IF CleanRaises(result)
             THEN [ret |-> [error |-> "exception",
                            fallback_data |-> _generateFallbackData(rnd)],
                   calls |-> <<"extractTextFromDocument", "callLlmApi",
                               "_cleanExtractedData", "_generateFallbackData">>]
             ELSE [ret |-> WithPreview(_cleanExtractedData(result, seed),
                                       documentText),
                   calls |-> <<"extractTextFromDocument", "callLlmApi",
                               "_cleanExtractedData">>]
        ELSE [ret |-> WithPreview(_cleanExtractedData(localData, seed),
                                  documentText),
              calls |-> (IF client THEN <<"extractTextFromDocument", "callLlmApi">>
                         ELSE <<"extractTextFromDocument">>)
                        \o <<"_localExtraction", "_cleanExtractedData">>]

(***************************************************************************)
(* The store: app/models.py.                                               *)
(***************************************************************************)
Today == "2024-01-31"

RouteFormats == <<"%Y-%m-%d", "%d/%m/%Y", "%m/%d/%Y", "%d-%m-%Y", "%m-%d-%Y">>

NonStr == "<number>"
NoDate == NullStr

Truthy(s) == s \notin {"", NullStr}

\* processDocument's orderDate for a record (lines 128-140)
OrderDateOf(rec) ==
    LET s == Get(rec, "order_date", NullStr)
        f == FirstParse(s, RouteFormats, 1)
    IN  IF ~Truthy(s) THEN Today
        ELSE IF s = NonStr THEN Today
        ELSE IF f > 0 THEN IsoOf(s, RouteFormats[f])
        ELSE NoDate

\* SalesOrderHeader(...) of lines 142-152
SalesOrderHeader(rec, id) ==
    [orderId |-> id,
     customerName |-> Get(rec, "customer_name", ""),
     orderDate |-> OrderDateOf(rec),
     invoiceNumber |-> Get(rec, "invoice_number", ""),
     totalAmount |-> Get(rec, "total_amount", Num(0)).n,
     taxAmount |-> Get(rec, "tax_amount", Num(0)).n,
     status |-> "extracted"]

\* SalesOrderDetail(...) of lines 158-166
SalesOrderDetail(detailData, orderId) ==
    [detailId |-> 0,
     orderId |-> orderId,
     productName |-> detailData.product_name,
     quantity |-> detailData.quantity.n,
     unitPrice |-> detailData.unit_price.n,
     lineTotal |-> detailData.line_total.n]

\* a sales_order_header without the UNIQUE constraint on invoice_number
HeaderAcceptedWithoutUnique(h, stored) ==
    /\ h.customerName # NullStr
    /\ h.orderDate # NoDate
    /\ h.invoiceNumber # NullStr

\* the NOT NULL and UNIQUE constraints of sales_order_header
HeaderAccepted(h, stored) ==
    /\ h.customerName # NullStr
    /\ h.orderDate # NoDate
    /\ h.invoiceNumber # NullStr
    /\ \A o \in stored : o.invoiceNumber # h.invoiceNumber

\* the NOT NULL constraints of sales_order_detail
DetailAccepted(d) == d.productName # NullStr

\* the rows of a session's pending details with their detail_id assigned
Inserted(pending, firstId) ==
    { [pending[i] EXCEPT !.detailId = firstId + i - 1] : i \in 1..Len(pending) }

OrderDetailsOf(rec) == Get(rec, "order_details", [k |-> "list", items |-> <<>>]).items

\* detailData['product_name'] ... raise KeyError (lines 160-164)
DetailKeyError(detailData) ==
    ~({"product_name", "quantity", "unit_price", "line_total"} \subseteq DOMAIN detailData)

\* SalesOrderHeader.toDict / SalesOrderDetail.toDict of the stored order
toDict(id, hs, ds) ==
    LET h == CHOOSE o \in hs : o.orderId = id
    IN  [orderId |-> h.orderId,
         customerName |-> h.customerName,
         orderDate |-> h.orderDate,
         invoiceNumber |-> h.invoiceNumber,
         totalAmount |-> h.totalAmount,
         taxAmount |-> h.taxAmount,
         status |-> h.status,
         orderDetails |-> { d \in ds : d.orderId = id }]

(***************************************************************************)
(* Inputs of the job specification.                                        *)
(***************************************************************************)
ALLOWED_EXTENSIONS == {"pdf", "png", "jpg", "jpeg", "gif"}

allowedFile(fileType) == fileType \in ALLOWED_EXTENSIONS

T_inv100 ==
    Text("inv100", 150, 11, <<>>, <<"INV-100">>, <<"950.00", "1,200.00">>,
         <<"01/15/2024">>)
T_rawdate ==
    Text("rawdate", 120, 12, <<"Acme Corp">>, <<"INV-200">>, <<"30">>, <<"01/15/24">>)
T_nomatch == Text("nomatch", 40, 13, <<>>, <<>>, <<>>, <<>>)
T_short == Text("short", 5, 14, <<>>, <<>>, <<>>, <<>>)

Documents ==
    { Document("pdf", Returns(T_inv100), Raises, Raises),
      Document("pdf", Returns(T_short), Returns(T_rawdate), Raises),
      Document("png", Returns(EmptyText), Returns(T_nomatch), Raises),
      Document("jpg", Returns(EmptyText), Returns(T_short), Raises) }

Item(name, quantity, unit_price, line_total) ==
    [product_name |-> name, quantity |-> quantity, unit_price |-> unit_price,
     line_total |-> line_total]

\* what the model answers, when it answers
LlmResponses ==
    { LlmRaises,
      LlmEmpty,
      \* prose only
      LlmText(<<"p">>, <<>>),
      \* a truncated object that one closing brace does not repair
      LlmText(<<"{", "k", "{", "m">>, <<>>),
      \* a complete object: two line items, the second without line_total,
      \* no total
      LlmText(<<"{", "m", "}">>,
              [customer_name |-> "Acme Corp", invoice_number |-> "INV-100",
               order_date |-> "2024-01-15", total_amount |-> Num(0),
               tax_amount |-> Num(250),
               order_details |->
                   [k |-> "list",
                    items |-> << Item("Widget", Num(3), Num(1000), Num(3000)),
                                 [product_name |-> "Gadget", quantity |-> Num(2),
                                  unit_price |-> Num(500)] >>]]),
      \* a truncated object that one closing brace repairs; a null product name
      LlmText(<<"p", "{", "m">>,
              [customer_name |-> "Bolt Ltd", invoice_number |-> "INV-300",
               order_date |-> "15/01/2024", total_amount |-> Num(4000),
               order_details |->
                   [k |-> "list",
                    items |-> << Item(NullStr, Num(1), Num(4000), Num(4000)) >>]]),
      \* an object whose total is not a number
      LlmText(<<"{", "m", "}">>,
              [customer_name |-> "Acme Corp", invoice_number |-> "INV-400",
               total_amount |-> Junk]) }

\* ordered samples, without repetition, of 1..k of the first n sampleProducts
Samples(n, k) ==
    { s \in UNION { [1..m -> 1..n] : m \in 1..k } :
        \A a, b \in DOMAIN s : a # b => s[a] # s[b] }

\* the draws of the random module offered to a job
Draws ==
    [num : {1000, 9999}, days : {16}, sample : Samples(MaxSampleProducts, 3)]

(***************************************************************************)
(* processDocument: the background job (routes.py, lines 84-200).          *)
(***************************************************************************)
NoData == [absent |-> TRUE]
NoSession == [header |-> <<>>, details |-> <<>>]

Event(status, message, payload, orderId) ==
    [status |-> status, message |-> message, data |-> payload, orderId |-> orderId]

\* an emit helper without the try/except: a failing socketio.emit raises
raising_socketio_emit(emitOk) == ~emitOk

\* safe_socketio_emit: whether the call raises when socketio.emit does
\* (emitOk = FALSE); the try/except of lines 21-24 swallows it
safe_socketio_emit(emitOk) == FALSE

\* an outermost handler that re-raises instead of printing
reraise_outer == "escaped"

\* where control goes from each try block's except clause
except_outer == "done"                       \* lines 197-200: print only
except_inner == "emit_processing_error"      \* lines 189-196
except_db == "rollback"                      \* lines 179-187

\* a safe_socketio_emit call made at a place whose enclosing handler is
\* `handler` and whose next statement is `next`
Emit(j, ev, emitOk, next, handler) ==
    /\ events' = [events EXCEPT ![j] = Append(@, ev)]
    /\ emitRaised' = [emitRaised EXCEPT ![j] = @ \/ ~emitOk]
    /\ pc' = [pc EXCEPT ![j] = IF safe_socketio_emit(emitOk) THEN handler ELSE next]

Called(j, names) == calls' = [calls EXCEPT ![j] = @ \o names]

\* uploadFile (lines 33-74): saves the file and starts processDocument as a
\* background task, passing it the application object
uploadFile(j) ==
    /\ pc[j] = "idle"
    /\ \E d \in Documents :
        /\ allowedFile(d.fileType)
        /\ doc' = [doc EXCEPT ![j] = d]
    /\ appInstance' = [appInstance EXCEPT ![j] = "app"]
    /\ pc' = [pc EXCEPT ![j] = "start"]
    /\ UNCHANGED <<reader, faults, harness, normalizer, llmResponse, service, store, extractedData, data, order, session, events,
                   emitRaised, calls>>

\* lines 86-89: without an application object the job builds one with
\* createApp(), outside every try block
Start(j) ==
    /\ pc[j] = "start"
    /\ IF appInstance[j] = "None"
       THEN \E created \in BOOLEAN :
                pc' = [pc EXCEPT ![j] = IF created THEN "enter_context" ELSE "escaped"]
       ELSE pc' = [pc EXCEPT ![j] = "enter_context"]
    /\ faults' = [faults EXCEPT ![j] =
                      \/ @
                      \/ /\ pc'[j] = "escaped"]
    /\ UNCHANGED <<reader, harness, normalizer, llmResponse, service, args, store, extractedData, data, order, session,
                   events, emitRaised, calls>>

\* a job that enters the context and goes to the extraction without the
\* 'processing' event
EnterContextThenExtract(j) ==
    /\ pc[j] = "enter_context"
    /\ \E ok \in BOOLEAN :
        pc' = [pc EXCEPT ![j] = IF ok THEN "extract" ELSE except_outer]
    /\ faults' = [faults EXCEPT ![j] =
                      \/ @
                      \/ /\ pc'[j] = except_outer]
    /\ UNCHANGED <<reader, harness, normalizer, llmResponse, service, args, store, extractedData, data, order, session,
                   events, emitRaised, calls>>

\* line 92: with appInstance.app_context()
EnterContext(j) ==
    /\ pc[j] = "enter_context"
    /\ \E ok \in BOOLEAN :
        pc' = [pc EXCEPT ![j] = IF ok THEN "emit_processing" ELSE except_outer]
    /\ faults' = [faults EXCEPT ![j] =
                      \/ @
                      \/ /\ pc'[j] = except_outer]
    /\ UNCHANGED <<reader, harness, normalizer, llmResponse, service, args, store, extractedData, data, order, session,
                   events, emitRaised, calls>>

\* lines 94-98
EmitProcessing(j) ==
    /\ pc[j] = "emit_processing"
    /\ \E emitOk \in BOOLEAN :
        Emit(j, Event("processing", "Extracting data from document...", NoData, 0),
             emitOk, "extract", except_inner)
    /\ UNCHANGED <<reader, faults, harness, normalizer, llmResponse, service, args, store, extractedData, data, order, session,
                   calls>>

\* line 100: extractedData = llmService.extractInvoiceData(filePath, fileType)
Extract(j) ==
    /\ pc[j] = "extract"
    /\ \E r \in LlmResponses, rnd \in Draws :
        LET res == extractInvoiceData(doc[j], r, rnd, easyocrAvailable,
                                      clientAvailable, hashSeed)
        IN  /\ extractedData' = [extractedData EXCEPT ![j] = res.ret]
            /\ llmResponse' = [llmResponse EXCEPT ![j] = r]
            /\ Called(j, res.calls)
    /\ pc' = [pc EXCEPT ![j] = "check"]
    /\ UNCHANGED <<reader, faults, harness, normalizer, service, args, store, data, order, session, events, emitRaised>>

\* lines 102-118
CheckExtraction(j) ==
    /\ pc[j] = "check"
    /\ LET has_error == HasKey(extractedData[j], "error")
           has_fallback == HasKey(extractedData[j], "fallback_data")
       IN  IF has_error /\ ~has_fallback
           THEN /\ \E emitOk \in BOOLEAN :
                    Emit(j, Event("error", extractedData[j].error, NoData, 0),
                         emitOk, "done", except_inner)
                /\ UNCHANGED data
           ELSE /\ data' = [data EXCEPT ![j] =
                               IF has_error /\ has_fallback
                               THEN extractedData[j].fallback_data
                               ELSE extractedData[j]]
                /\ pc' = [pc EXCEPT ![j] = "emit_extracted"]
                /\ UNCHANGED <<events, emitRaised>>
    /\ UNCHANGED <<reader, faults, harness, normalizer, llmResponse, service, args, store, extractedData, order, session, calls>>

\* lines 120-125
EmitExtracted(j) ==
    /\ pc[j] = "emit_extracted"
    /\ \E emitOk \in BOOLEAN :
        Emit(j, Event("extracted", "Data extracted successfully", data[j], 0),
             emitOk, "add_header", except_inner)
    /\ UNCHANGED <<reader, faults, harness, normalizer, llmResponse, service, args, store, extractedData, data, order, session,
                   calls>>

\* a session in autocommit mode: the flush of the header is already a commit
AddHeaderAutocommit(j) ==
    /\ pc[j] = "add_header"
    /\ \E dbOk \in BOOLEAN :
        LET built == SalesOrderHeader(data[j], nextOrderId)
        IN  IF dbOk /\ HeaderAccepted(built, headers)
            THEN /\ session' = [session EXCEPT ![j] =
                                   [header |-> <<built>>, details |-> <<>>]]
                 /\ order' = [order EXCEPT ![j] = <<built>>]
                 /\ nextOrderId' = nextOrderId + 1
                 /\ headers' = headers \cup {built}
                 /\ pc' = [pc EXCEPT ![j] =
                              IF OrderDetailsOf(data[j]) = <<>> THEN "commit"
                              ELSE "add_details"]
            ELSE /\ pc' = [pc EXCEPT ![j] = except_db]
                 /\ UNCHANGED <<order, session, nextOrderId, headers>>
    /\ Called(j, <<"flush">>)
    /\ faults' = [faults EXCEPT ![j] =
                      \/ @
                      \/ /\ pc'[j] = except_db
                         /\ HeaderAccepted(SalesOrderHeader(data[j], nextOrderId), headers)]
    /\ UNCHANGED <<reader, harness, normalizer, llmResponse, service, args, extractedData, data, events, emitRaised,
                   details, nextDetailId>>

\* lines 127-155: the order date, the header, db.session.add and flush
AddHeader(j) ==
    /\ pc[j] = "add_header"
    /\ \E dbOk \in BOOLEAN :
        LET built == SalesOrderHeader(data[j], nextOrderId)
        IN  IF dbOk /\ HeaderAccepted(built, headers)
            THEN /\ session' = [session EXCEPT ![j] =
                                   [header |-> <<built>>, details |-> <<>>]]
                 /\ order' = [order EXCEPT ![j] = <<built>>]
                 /\ nextOrderId' = nextOrderId + 1
                 /\ pc' = [pc EXCEPT ![j] =
                              IF OrderDetailsOf(data[j]) = <<>> THEN "commit"
                              ELSE "add_details"]
            ELSE /\ pc' = [pc EXCEPT ![j] = except_db]
                 /\ UNCHANGED <<order, session, nextOrderId>>
    /\ Called(j, <<"flush">>)
    /\ faults' = [faults EXCEPT ![j] =
                      \/ @
                      \/ /\ pc'[j] = except_db
                         /\ HeaderAccepted(SalesOrderHeader(data[j], nextOrderId), headers)]
    /\ UNCHANGED <<reader, harness, normalizer, llmResponse, service, args, extractedData, data, events, emitRaised, headers,
                   details, nextDetailId>>

\* lines 157-167: one turn of the loop over data['order_details']
AddDetail(j) ==
    /\ pc[j] = "add_details"
    /\ LET items == OrderDetailsOf(data[j])
           i == Len(session[j].details) + 1
       IN  IF DetailKeyError(items[i])
           THEN /\ pc' = [pc EXCEPT ![j] = except_db]
                /\ UNCHANGED session
           ELSE /\ session' = [session EXCEPT ![j].details =
                                  Append(@, SalesOrderDetail(items[i],
                                                             order[j][1].orderId))]
                /\ pc' = [pc EXCEPT ![j] =
                             IF i = Len(items) THEN "commit" ELSE "add_details"]
    /\ Called(j, <<"add">>)
    /\ UNCHANGED <<reader, faults, harness, normalizer, llmResponse, service, args, store, extractedData, data, order, events,
                   emitRaised>>

\* a commit that writes the header and drops the pending line items
CommitHeaderOnly(j) ==
    /\ pc[j] = "commit"
    /\ \E dbOk \in BOOLEAN :
        LET header == session[j].header[1]
        IN  IF dbOk /\ HeaderAccepted(header, headers)
            THEN /\ headers' = headers \cup {header}
                 /\ session' = [session EXCEPT ![j] = NoSession]
                 /\ pc' = [pc EXCEPT ![j] = "emit_completed"]
            ELSE /\ pc' = [pc EXCEPT ![j] = except_db]
                 /\ UNCHANGED <<headers, session>>
    /\ Called(j, <<"commit">>)
    /\ faults' = [faults EXCEPT ![j] =
                      \/ @
                      \/ /\ pc'[j] = except_db
                         /\ HeaderAccepted(session[j].header[1], headers)]
    /\ UNCHANGED <<reader, harness, normalizer, llmResponse, service, args, extractedData, data, order, events, emitRaised,
                   nextOrderId, details, nextDetailId>>

\* line 169: db.session.commit() inserts the details and commits header and
\* details together, or raises
Commit(j) ==
    /\ pc[j] = "commit"
    /\ \E dbOk \in BOOLEAN :
        LET header == session[j].header[1]
            pending == session[j].details
        IN  IF /\ dbOk
               /\ HeaderAccepted(header, headers)
               /\ \A i \in 1..Len(pending) : DetailAccepted(pending[i])
            THEN /\ headers' = headers \cup {header}
                 /\ details' = details \cup Inserted(pending, nextDetailId)
                 /\ nextDetailId' = nextDetailId + Len(pending)
                 /\ session' = [session EXCEPT ![j] = NoSession]
                 /\ pc' = [pc EXCEPT ![j] = "emit_completed"]
            ELSE /\ pc' = [pc EXCEPT ![j] = except_db]
                 /\ UNCHANGED <<headers, details, nextDetailId, session>>
    /\ Called(j, <<"commit">>)
    /\ faults' = [faults EXCEPT ![j] =
                      \/ @
                      \/ /\ pc'[j] = except_db
                         /\ HeaderAccepted(session[j].header[1], headers)
                         /\ \A i \in 1..Len(session[j].details) :
                                DetailAccepted(session[j].details[i])]
    /\ UNCHANGED <<reader, harness, normalizer, llmResponse, service, args, extractedData, data, order, events, emitRaised,
                   nextOrderId>>

\* lines 171-177: order.orderId and order.toDict() reload the expired order
\* from the database (which may raise), then the event is emitted
EmitCompleted(j) ==
    /\ pc[j] = "emit_completed"
    /\ \E dbOk \in BOOLEAN, emitOk \in BOOLEAN :
        LET id == order[j][1].orderId
        IN  IF dbOk /\ \E o \in headers : o.orderId = id
            THEN Emit(j, Event("completed", "Invoice saved to database",
                               toDict(id, headers, details), id),
                      emitOk, "done", except_db)
            ELSE /\ pc' = [pc EXCEPT ![j] = except_db]
                 /\ UNCHANGED <<events, emitRaised>>
    /\ faults' = [faults EXCEPT ![j] =
                      \/ @
                      \/ /\ pc'[j] = except_db]
    /\ UNCHANGED <<reader, harness, normalizer, llmResponse, service, args, store, extractedData, data, order, session,
                   calls>>

\* line 180: db.session.rollback(), which may itself raise
Rollback(j) ==
    /\ pc[j] = "rollback"
    /\ \E dbOk \in BOOLEAN :
        pc' = [pc EXCEPT ![j] = IF dbOk THEN "emit_db_error" ELSE except_inner]
    /\ session' = [session EXCEPT ![j] = NoSession]
    /\ Called(j, <<"rollback">>)
    /\ faults' = [faults EXCEPT ![j] =
                      \/ @
                      \/ /\ pc'[j] = except_inner]
    /\ UNCHANGED <<reader, harness, normalizer, llmResponse, service, args, store, extractedData, data, order, events,
                   emitRaised>>

\* lines 181-187
EmitDbError(j) ==
    /\ pc[j] = "emit_db_error"
    /\ \E emitOk \in BOOLEAN :
        Emit(j, Event("error", "Database error", NoData, 0),
             emitOk, "done", except_inner)
    /\ UNCHANGED <<reader, faults, harness, normalizer, llmResponse, service, args, store, extractedData, data, order, session,
                   calls>>

\* lines 189-196
EmitProcessingError(j) ==
    /\ pc[j] = "emit_processing_error"
    /\ \E emitOk \in BOOLEAN :
        Emit(j, Event("error", "Processing error", NoData, 0),
             emitOk, "done", except_outer)
    /\ UNCHANGED <<reader, faults, harness, normalizer, llmResponse, service, args, store, extractedData, data, order, session,
                   calls>>

(***************************************************************************)
(* The normalizer on its own: _cleanExtractedData applied to a candidate   *)
(* mapping, and applied again to what it returned.                         *)
(***************************************************************************)
NotRun == [state |-> "none", value |-> NoData]

\* what a call of _cleanExtractedData(d) does: raise, or return a record
Outcome(d, seed) ==
    IF CleanRaises(d) THEN [state |-> "raised", value |-> NoData]
    ELSE [state |-> "returned", value |-> _cleanExtractedData(d, seed)]

\* markers of a key the candidate does not hold
Absent == [k |-> "absent", n |-> 0]
AbsentStr == "<absent>"
AbsentList == [k |-> "absent", items |-> <<>>]

\* order_details that is a list, and one that is a string
List(items) == [k |-> "list", items |-> items]
NotAList == [k |-> "str", items |-> <<>>]

\* a candidate line item
ItemOf(name, quantity, unit_price, line_total) ==
    LET full == Item(name, quantity, unit_price, line_total)
        absent == {key \in {"product_name"} : name = AbsentStr}
                  \cup {key \in {"quantity"} : quantity.k = "absent"}
                  \cup {key \in {"unit_price"} : unit_price.k = "absent"}
                  \cup {key \in {"line_total"} : line_total.k = "absent"}
    IN  [key \in DOMAIN full \ absent |-> full[key]]

\* a candidate mapping
CandidateOf(name, inv, total, tax, od) ==
    LET full == [customer_name |-> name, order_date |-> "2024-01-15",
                 invoice_number |-> inv, total_amount |-> total,
                 tax_amount |-> tax, order_details |-> od]
        absent == {key \in {"customer_name"} : name = AbsentStr}
                  \cup {key \in {"invoice_number"} : inv = AbsentStr}
                  \cup {key \in {"total_amount"} : total.k = "absent"}
                  \cup {key \in {"tax_amount"} : tax.k = "absent"}
                  \cup {key \in {"order_details"} : od.k = "absent"}
    IN  [key \in DOMAIN full \ absent |-> full[key]]

Quantities == {Absent, Num(3), Num(0), Num(-2), Frac(2), NumStr(4), Null}
UnitPrices == {Absent, Num(1000), Num(-1000)}
LineTotalValues == {Absent, Num(0), Num(2500), Junk}

ItemCandidates ==
    { ItemOf("Widget", q, p, l) :
        q \in Quantities, p \in UnitPrices, l \in LineTotalValues }

DetailLists ==
    {AbsentList, NotAList, List(<<>>)}
    \cup { List(<<e>>) : e \in ItemCandidates }
    \cup { List(<< NonDict, ItemOf(AbsentStr, Num(3), Num(1000), Absent),
                   ItemOf("Gadget", Num(1), Num(500), Num(700)) >>) }

Candidates ==
    { CandidateOf(name, inv, total, tax, od) :
        name \in {AbsentStr, "", "Acme Corp"},
        inv \in {AbsentStr, "INV-7"},
        total \in {Absent, Num(0), Num(5000), Num(-500), NumStr(1250), Null},
        tax \in {Absent, Num(0), Num(250), Junk},
        od \in DetailLists }
    \cup { _localExtraction(t, 0) : t \in {T_inv100, T_rawdate, T_nomatch} }

\* cleanedData = self._cleanExtractedData(result)
Normalize ==
    /\ cleanedData = NotRun
    /\ cleanedData' = Outcome(candidate, hashSeed)
    /\ UNCHANGED <<reader, faults, harness, service, args, store, pc, extractedData, data, order, session,
                   events, emitRaised, calls, llmResponse, candidate, recleaned>>

\* the record it returned goes through _cleanExtractedData once more
NormalizeAgain ==
    /\ cleanedData.state = "returned"
    /\ recleaned = NotRun
    /\ recleaned' = Outcome(cleanedData.value, hashSeed)
    /\ UNCHANGED <<reader, faults, harness, service, args, store, pc, extractedData, data, order, session,
                   events, emitRaised, calls, llmResponse, candidate, cleanedData>>

(***************************************************************************)
(* Text extraction on its own: extractTextFromDocument applied to a        *)
(* document, for every availability of the OCR engine and of the model.    *)
(***************************************************************************)
TextOfLen(id, len) == Text(id, len, 0, <<>>, <<>>, <<>>, <<>>)

\* a capability that raised after part of the text had been read
RaisesAfter(t) == [raises |-> TRUE, text |-> t]

NativeOutcomes ==
    { Raises, RaisesAfter(TextOfLen("native-partial", 50)),
      Returns(EmptyText), Returns(TextOfLen("native", 50)),
      Returns(TextOfLen("native", 100)), Returns(TextOfLen("native", 101)) }

OcrOutcomes ==
    { Raises, Returns(TextOfLen("ocr", 5)), Returns(TextOfLen("ocr", 10)),
      Returns(TextOfLen("ocr", 11)), Returns(TextOfLen("ocr", 100)),
      Returns(TextOfLen("ocr", 101)) }

VisionOutcomes == { Raises, Returns(EmptyText), Returns(TextOfLen("vision", 60)) }

TextDocuments ==
    { Document(fileType, native, ocr, vision) :
        fileType \in {"pdf", "png"}, native \in NativeOutcomes,
        ocr \in OcrOutcomes, vision \in VisionOutcomes }

\* documentText = self.extractTextFromDocument(filePath, fileType)
ExtractText ==
    /\ runs = <<>>
    /\ runs' = << [text |-> extractTextFromDocument(subject, easyocrAvailable,
                                                    clientAvailable),
                   steps |-> extractTextFromDocumentSteps(subject, easyocrAvailable,
                                                          clientAvailable)] >>
    /\ UNCHANGED <<reader, faults, subject, normalizer, service, args, store, pc, extractedData,
                   data, order, session, events, emitRaised, calls, llmResponse>>

(***************************************************************************)
(* The JSON repair on its own: _parseJsonResponse applied to a response    *)
(* text.                                                                   *)
(***************************************************************************)
MaxTokens == 4

JsonTokens == {Fence, NL, "{", "}", "m", "k", "p", "P", "D"}

\* the texts of 1..n tokens
RECURSIVE TokenSeqs(_)
TokenSeqs(n) ==
    IF n = 1 THEN { <<tok>> : tok \in JsonTokens }
    ELSE TokenSeqs(n - 1)
             \cup { Append(text, tok) :
                        text \in { t \in TokenSeqs(n - 1) : Len(t) = n - 1 },
                        tok \in JsonTokens }

\* {"a": 1}
ObjectA == [a |-> Num(1)]

\* complete objects as the model writes them, with what they denote:
\* {"a": 1}, {"k": {"a": 1}} and {}
ObjectTexts == { <<"{", "m", "}">>, <<"{", "k", "{", "m", "}", "}">>, <<"{", "}">> }

ObjectValue(c) ==
    CASE c = <<"{", "m", "}">> -> ObjectA
      [] c = <<"{", "k", "{", "m", "}", "}">> -> [k |-> ObjectA]
      [] OTHER -> <<>>

\* an object inside a code fence: with a language line, with an empty first
\* line, on one line
Fenced(c) ==
    { <<Fence, "p", NL>> \o c \o <<NL, Fence>>,
      <<Fence, NL>> \o c \o <<NL, Fence>>,
      <<Fence>> \o c \o <<Fence>>,
      <<Fence>> \o c \o <<NL, Fence>>,
      <<"p", NL, Fence, "p", NL>> \o c \o <<NL, Fence>> }

\* an object preceded by prose, and followed by it
InProse(c) ==
    { <<"p">> \o c, <<"p", NL>> \o c, <<"p">> \o c \o <<"p">>,
      <<"P", NL>> \o c \o <<NL, "p">> }

JsonTexts ==
    TokenSeqs(MaxTokens)
        \cup UNION { Fenced(c) \cup InProse(c) \cup {c} : c \in ObjectTexts }
        \cup { <<Fence, "p", NL, "{", "k", "D">>,
               <<"p", NL, "{", "k", "{", "m", "}">> }

\* parsed = self._parseJsonResponse(response.text)
ParseJson ==
    /\ runs = <<>>
    /\ runs' = << _parseJsonResponse(subject) >>
    /\ UNCHANGED <<reader, faults, subject, normalizer, service, args, store, pc, extractedData,
                   data, order, session, events, emitRaised, calls, llmResponse>>

(***************************************************************************)
(* The rule-based extraction on its own: _localExtraction applied to a     *)
(* text, as often as MaxRuns times, in one process or across restarts of   *)
(* the service.                                                            *)
(***************************************************************************)
MaxRuns == 2

\* PYTHONHASHSEED as the interpreter draws it at start-up
HashSeeds == {0, 1, 2}

\* what re.findall finds for each label, in the order of the text
NameMatches == { <<>>, <<"  Acme Corp ">>, <<"Bolt Ltd  ", "  Acme Corp ">> }
InvoiceMatches == { <<>>, <<"INV-100">>, <<"INV-007", "INV-100">> }
TotalMatches ==
    { <<>>, <<"30">>, <<"950.00", "1,200.00">>, <<"1,200.00", "950.00">>,
      <<"950.00", ",">> }
\* the pattern admits one or two digits before the first separator
DateMatches ==
    { <<>>, <<"01/15/2024">>, <<"15/01/2024">>, <<"03/04/2024">>,
      <<"01-15-2024">>, <<"15-01-2024">>, <<"01/15/24">>, <<"13/13/2024">>,
      <<"01/15/2024", "03/04/2024">>, <<"03/04/2024", "01/15/24">> }

RuleTexts ==
    { Text("invoice", 60, 13, names, invs, totals, dates) :
        names \in NameMatches, invs \in InvoiceMatches,
        totals \in TotalMatches, dates \in DateMatches }

\* localData = self._localExtraction(documentText)
RunLocalExtraction ==
    /\ Len(runs) < MaxRuns
    /\ runs' = Append(runs, _localExtraction(subject, hashSeed))
    /\ UNCHANGED <<reader, faults, subject, normalizer, service, args, store, pc, extractedData,
                   data, order, session, events, emitRaised, calls, llmResponse>>

\* the service process ends and a new one starts: llmService = GoogleLLMService()
\* in an interpreter with a new hash seed
Restart ==
    /\ runs # <<>>
    /\ Len(runs) < MaxRuns
    /\ hashSeed' \in HashSeeds \ {hashSeed}
    /\ UNCHANGED <<reader, faults, clientAvailable, easyocrAvailable, harness, normalizer, args,
                   store, pc, extractedData, data, order, session, events,
                   emitRaised, calls, llmResponse>>

(***************************************************************************)
(* Retries: extractInvoiceData applied to the same document as often as    *)
(* MaxRuns times.                                                          *)
(***************************************************************************)
\* extractedData = llmService.extractInvoiceData(filePath, fileType)
RunExtractInvoiceData ==
    /\ Len(runs) < MaxRuns
    /\ \E rnd \in Draws :
           runs' = Append(runs,
                          extractInvoiceData(subject.doc, subject.r, rnd,
                                             easyocrAvailable, clientAvailable,
                                             hashSeed))
    /\ UNCHANGED <<reader, faults, subject, normalizer, service, args, store, pc, extractedData,
                   data, order, session, events, emitRaised, calls, llmResponse>>

(***************************************************************************)
(* The synthetic record on its own: _generateFallbackData for every sample *)
(* of one to three of the sampleProducts.                                  *)
(***************************************************************************)
FallbackDraws ==
    [num : {1000, 9999}, days : {1, 30}, sample : Samples(Len(sampleProducts), 3)]

\* "fallback_data": self._generateFallbackData()
GenerateFallback ==
    /\ runs = <<>>
    /\ runs' = << _generateFallbackData(subject) >>
    /\ UNCHANGED <<reader, faults, subject, normalizer, service, args, store, pc, extractedData,
                   data, order, session, events, emitRaised, calls, llmResponse>>

(***************************************************************************)
(* The job specification.                                                  *)
(***************************************************************************)
NoDocument == Document("", Raises, Raises, Raises)

\* the order an earlier upload of the first document left in the store, when
\* the model was not available to it
EarlierOrder ==
    SalesOrderHeader(_cleanExtractedData(_localExtraction(T_inv100, 0), 0), 1)

Init ==
    /\ clientAvailable \in BOOLEAN
    /\ easyocrAvailable \in BOOLEAN
    /\ hashSeed = 0
    /\ pc = [j \in AllJobs |-> "idle"]
    /\ doc = [j \in AllJobs |-> NoDocument]
    /\ appInstance = [j \in AllJobs |-> "None"]
    /\ extractedData = [j \in AllJobs |-> NoData]
    /\ data = [j \in AllJobs |-> NoData]
    /\ order = [j \in AllJobs |-> <<>>]
    /\ session = [j \in AllJobs |-> NoSession]
    /\ events = [j \in AllJobs |-> <<>>]
    /\ emitRaised = [j \in AllJobs |-> FALSE]
    /\ calls = [j \in AllJobs |-> <<>>]
    /\ faults = [j \in AllJobs |-> FALSE]
    /\ ocrReader = "None"
    /\ sawReader = [j \in AllJobs |-> "untested"]
    /\ headers \in {{}, {EarlierOrder}}
    /\ details = {}
    /\ nextOrderId = Cardinality(headers) + 1
    /\ nextDetailId = 1
    /\ llmResponse = [j \in AllJobs |-> NoResponse]
    /\ candidate = NoData
    /\ cleanedData = NotRun
    /\ recleaned = NotRun
    /\ subject = NoData
    /\ runs = <<>>

\* one step of job j
Step(j) ==
    \/ uploadFile(j)
    \/ Start(j)
    \/ EnterContext(j)
    \/ EmitProcessing(j)
    \/ Extract(j)
    \/ CheckExtraction(j)
    \/ EmitExtracted(j)
    \/ AddHeader(j)
    \/ AddDetail(j)
    \/ Commit(j)
    \/ EmitCompleted(j)
    \/ Rollback(j)
    \/ EmitDbError(j)
    \/ EmitProcessingError(j)

Next == \E j \in Jobs : Step(j)

Spec == Init /\ [][Next]_vars

(***************************************************************************)
(* The normalizer specification: every candidate, cleaned once and twice.  *)
(***************************************************************************)
InitNormalizer ==
    /\ clientAvailable = FALSE
    /\ easyocrAvailable = FALSE
    /\ hashSeed = 0
    /\ pc = [j \in AllJobs |-> "idle"]
    /\ doc = [j \in AllJobs |-> NoDocument]
    /\ appInstance = [j \in AllJobs |-> "None"]
    /\ extractedData = [j \in AllJobs |-> NoData]
    /\ data = [j \in AllJobs |-> NoData]
    /\ order = [j \in AllJobs |-> <<>>]
    /\ session = [j \in AllJobs |-> NoSession]
    /\ events = [j \in AllJobs |-> <<>>]
    /\ emitRaised = [j \in AllJobs |-> FALSE]
    /\ calls = [j \in AllJobs |-> <<>>]
    /\ faults = [j \in AllJobs |-> FALSE]
    /\ ocrReader = "None"
    /\ sawReader = [j \in AllJobs |-> "untested"]
    /\ headers = {}
    /\ details = {}
    /\ nextOrderId = 1
    /\ nextDetailId = 1
    /\ llmResponse = [j \in AllJobs |-> NoResponse]
    /\ candidate \in Candidates
    /\ cleanedData = NotRun
    /\ recleaned = NotRun
    /\ subject = NoData
    /\ runs = <<>>

NextNormalizer == Normalize \/ NormalizeAgain

SpecNormalizer == InitNormalizer /\ [][NextNormalizer]_vars

(***************************************************************************)
(* The specifications of the single functions start from a service with    *)
(* no job and an empty store.                                              *)
(***************************************************************************)
NoJobs ==
    /\ pc = [j \in AllJobs |-> "idle"]
    /\ doc = [j \in AllJobs |-> NoDocument]
    /\ appInstance = [j \in AllJobs |-> "None"]
    /\ extractedData = [j \in AllJobs |-> NoData]
    /\ data = [j \in AllJobs |-> NoData]
    /\ order = [j \in AllJobs |-> <<>>]
    /\ session = [j \in AllJobs |-> NoSession]
    /\ events = [j \in AllJobs |-> <<>>]
    /\ emitRaised = [j \in AllJobs |-> FALSE]
    /\ calls = [j \in AllJobs |-> <<>>]
    /\ faults = [j \in AllJobs |-> FALSE]
    /\ ocrReader = "None"
    /\ sawReader = [j \in AllJobs |-> "untested"]
    /\ headers = {}
    /\ details = {}
    /\ nextOrderId = 1
    /\ nextDetailId = 1
    /\ llmResponse = [j \in AllJobs |-> NoResponse]
    /\ candidate = NoData
    /\ cleanedData = NotRun
    /\ recleaned = NotRun

(***************************************************************************)
(* The text extraction specification.                                      *)
(***************************************************************************)
InitText ==
    /\ NoJobs
    /\ clientAvailable \in BOOLEAN
    /\ easyocrAvailable \in BOOLEAN
    /\ hashSeed = 0
    /\ subject \in TextDocuments
    /\ runs = <<>>

NextText == ExtractText

SpecText == InitText /\ [][NextText]_vars

(***************************************************************************)
(* The JSON repair specification.                                          *)
(***************************************************************************)
InitJson ==
    /\ NoJobs
    /\ clientAvailable = TRUE
    /\ easyocrAvailable = TRUE
    /\ hashSeed = 0
    /\ subject \in { LlmText(text, ObjectA) : text \in JsonTexts }
    /\ runs = <<>>

NextJson == ParseJson

SpecJson == InitJson /\ [][NextJson]_vars

(***************************************************************************)
(* The synthetic record specification.                                     *)
(***************************************************************************)
InitFallback ==
    /\ NoJobs
    /\ clientAvailable = TRUE
    /\ easyocrAvailable = TRUE
    /\ hashSeed = 0
    /\ subject \in FallbackDraws
    /\ runs = <<>>

SpecFallback == InitFallback /\ [][GenerateFallback]_vars

(***************************************************************************)
(* The rule-based extraction specification.                                *)
(***************************************************************************)
InitRules ==
    /\ NoJobs
    /\ clientAvailable = TRUE
    /\ easyocrAvailable = TRUE
    /\ hashSeed \in HashSeeds
    /\ subject \in RuleTexts
    /\ runs = <<>>

NextRules == RunLocalExtraction \/ Restart

SpecRules == InitRules /\ [][NextRules]_vars

(***************************************************************************)
(* The retry specification.                                                *)
(***************************************************************************)
InitRetry ==
    /\ NoJobs
    /\ clientAvailable \in BOOLEAN
    /\ easyocrAvailable \in BOOLEAN
    /\ hashSeed \in HashSeeds
    /\ subject \in [doc : Documents, r : LlmResponses]
    /\ runs = <<>>

NextRetry == RunExtractInvoiceData \/ Restart

SpecRetry == InitRetry /\ [][NextRetry]_vars

(***************************************************************************)
(* The storage routes of routes.py: PUT and DELETE on an invoice's details *)
(* and DELETE of an invoice.  Each request runs in its own session and is  *)
(* one transaction; amounts are integers of cents.  The last request and  *)
(* its response status are kept in runs, with the store it found when it  *)
(* was refused.                                                            *)
(***************************************************************************)
MaxOrderId == 2
\* the largest line item identifier a replacement may allocate
MaxDetailId == 5

OrderIds == 1..MaxOrderId
DetailIds == 1..MaxDetailId

\* request.json items of PUT /api/invoices/<id>/details
Widget == [productName |-> "Widget", quantity |-> 2, unitPrice |-> 1000]
Gadget == [productName |-> "Gadget", quantity |-> 1, unitPrice |-> 500, lineTotal |-> 700]
WithoutQuantity == [productName |-> "Widget", unitPrice |-> 1000, lineTotal |-> 1000]
WithoutProductName == [quantity |-> 1, unitPrice |-> 500]
NullProductName == [productName |-> NullStr, quantity |-> 1, unitPrice |-> 500]

Payloads ==
    { NotAList,
      List(<<Widget, Gadget>>),
      List(<<Widget, WithoutQuantity>>),
      List(<<WithoutProductName>>),
      List(<<Gadget, NullProductName>>) }

\* the session's commit raises, or the commit succeeds and the reload of the
\* expired order for the response raises, or neither
DbOutcomes == {"ok", "commit raises", "reload raises"}

\* lines 306-307 and 311: detailData['quantity'] and detailData['unitPrice']
\* are evaluated for the default of .get('lineTotal', ...) whether or not
\* lineTotal is supplied, and detailData['productName'] for the constructor
ItemKeyError(detailData) ==
    ~({"quantity", "unitPrice", "productName"} \subseteq DOMAIN detailData)

LineTotalOf(detailData) ==
    IF "lineTotal" \in DOMAIN detailData THEN detailData.lineTotal
    ELSE detailData.quantity * detailData.unitPrice

\* lines 309-317
NewDetail(detailData, order_id) ==
    [detailId |-> 0,
     orderId |-> order_id,
     productName |-> detailData.productName,
     quantity |-> detailData.quantity,
     unitPrice |-> detailData.unitPrice,
     lineTotal |-> LineTotalOf(detailData)]

RECURSIVE SumLineTotal(_)
SumLineTotal(ds) ==
    IF ds = {} THEN 0
    ELSE LET d == CHOOSE x \in ds : TRUE
         IN  d.lineTotal + SumLineTotal(ds \ {d})

\* an integer primary key of SQLite: one more than the largest stored
NextId(ids) == IF ids = {} THEN 1 ELSE (CHOOSE m \in ids : \A n \in ids : n <= m) + 1

DetailIdsOf(ds) == { d.detailId : d \in ds }

OrderIdsOf(hs) == { o.orderId : o \in hs }

\* SQLite admits one writer: no job holds an open transaction
NoOpenTransaction == \A j \in AllJobs : session[j] = NoSession

Response(op, order_id, detail_id, payload, status) ==
    [op |-> op, order_id |-> order_id, detail_id |-> detail_id, payload |-> payload,
     status |-> status,
     before |-> IF status = 200 THEN <<>> ELSE << [headers |-> headers, details |-> details] >>]

\* line 321 computed from the supplied items only
updateInvoiceDetailsWithoutTax(o, total) == total

\* line 321: order.totalAmount = totalAmount + float(order.taxAmount)
NewTotalAmount(o, total) == total + o.taxAmount

\* rollback that keeps the bulk delete of line 302
updateInvoiceDetailsFailedKeepingDelete(kept) == kept

\* lines 332-333: db.session.rollback() undoes the delete and the adds
RolledBack(kept) == details

\* lines 292-336
updateInvoiceDetails ==
    /\ NoOpenTransaction
    /\ \E order_id \in OrderIds, payload \in Payloads, db \in DbOutcomes :
        /\ NextId(DetailIdsOf({ d \in details : d.orderId # order_id }))
               + Len(payload.items) - 1 <= MaxDetailId
        /\ LET found == { o \in headers : o.orderId = order_id }
               kept == { d \in details : d.orderId # order_id }
               items == payload.items
               keyError == \E i \in 1..Len(items) : ItemKeyError(items[i])
               added == [i \in 1..Len(items) |-> NewDetail(items[i], order_id)]
               rejected == \E i \in 1..Len(items) : ~DetailAccepted(added[i])
           IN  IF found = {}
               THEN /\ runs' = << Response("updateInvoiceDetails", order_id, 0, payload, 404) >>
                    /\ UNCHANGED store
               ELSE IF payload.k # "list"
               THEN /\ runs' = << Response("updateInvoiceDetails", order_id, 0, payload, 400) >>
                    /\ UNCHANGED store
               ELSE IF keyError \/ rejected \/ db = "commit raises"
               THEN /\ runs' = << Response("updateInvoiceDetails", order_id, 0, payload, 400) >>
                    /\ details' = RolledBack(kept)
                    /\ UNCHANGED <<headers, nextOrderId, nextDetailId>>
               ELSE LET o == CHOOSE h \in found : TRUE
                        inserted == Inserted(added, NextId(DetailIdsOf(kept)))
                        totalAmount == SumLineTotal(inserted)
                    IN  /\ details' = kept \cup inserted
                        /\ headers' = (headers \ {o}) \cup
                               {[o EXCEPT !.totalAmount = NewTotalAmount(o, totalAmount)]}
                        /\ nextDetailId' = NextId(DetailIdsOf(details'))
                        /\ UNCHANGED nextOrderId
                        /\ runs' = << Response("updateInvoiceDetails", order_id, 0, payload,
                                               IF db = "ok" THEN 200 ELSE 400) >>
    /\ UNCHANGED <<reader, faults, subject, normalizer, service, args, pc, extractedData,
                   data, order, session, events, emitRaised, calls, llmResponse>>

\* lines 338-361.  Line 347 sums the Decimal lineTotal of the remaining
\* items: sum() of no items is the int 0, of some items a Decimal, and line
\* 348 adds float(order.taxAmount) to it, which raises TypeError for a Decimal.
deleteInvoiceDetail ==
    /\ NoOpenTransaction
    /\ \E order_id \in OrderIds, detail_id \in DetailIds, db \in DbOutcomes :
        LET found == { d \in details : d.detailId = detail_id /\ d.orderId = order_id }
            owner == { o \in headers : o.orderId = order_id }
            remaining == { d \in details : d.orderId = order_id /\ d.detailId # detail_id }
            typeError == remaining # {}
        IN  IF found = {}
            THEN /\ runs' = << Response("deleteInvoiceDetail", order_id, detail_id, NotAList, 404) >>
                 /\ UNCHANGED store
            ELSE IF owner = {} \/ typeError \/ db = "commit raises"
            THEN /\ runs' = << Response("deleteInvoiceDetail", order_id, detail_id, NotAList, 400) >>
                 /\ UNCHANGED store
            ELSE LET o == CHOOSE h \in owner : TRUE
                 IN  /\ details' = details \ found
                     /\ headers' = (headers \ {o}) \cup
                            {[o EXCEPT !.totalAmount = SumLineTotal(remaining) + o.taxAmount]}
                     /\ nextDetailId' = NextId(DetailIdsOf(details'))
                     /\ UNCHANGED nextOrderId
                     /\ runs' = << Response("deleteInvoiceDetail", order_id, detail_id, NotAList,
                                            IF db = "ok" THEN 200 ELSE 400) >>
    /\ UNCHANGED <<reader, faults, subject, normalizer, service, args, pc, extractedData,
                   data, order, session, events, emitRaised, calls, llmResponse>>

\* a delete of the header alone
deleteInvoiceWithoutCascade(order_id) == details

\* src/app/models.py line 18: cascade='all, delete-orphan' deletes the
\* order's line items with it
Cascade(order_id) == { d \in details : d.orderId # order_id }

\* lines 270-284
deleteInvoice ==
    /\ NoOpenTransaction
    /\ \E order_id \in OrderIds, dbOk \in BOOLEAN :
        LET found == { o \in headers : o.orderId = order_id }
        IN  IF found = {}
            THEN /\ runs' = << Response("deleteInvoice", order_id, 0, NotAList, 404) >>
                 /\ UNCHANGED store
            ELSE IF ~dbOk
            THEN /\ runs' = << Response("deleteInvoice", order_id, 0, NotAList, 400) >>
                 /\ UNCHANGED store
            ELSE /\ headers' = headers \ found
                 /\ details' = Cascade(order_id)
                 /\ nextOrderId' = NextId(OrderIdsOf(headers'))
                 /\ nextDetailId' = NextId(DetailIdsOf(details'))
                 /\ runs' = << Response("deleteInvoice", order_id, 0, NotAList, 200) >>
    /\ UNCHANGED <<reader, faults, subject, normalizer, service, args, pc, extractedData,
                   data, order, session, events, emitRaised, calls, llmResponse>>

\* the order and the line items an earlier job stored from fallback data
StoredDraw == [num |-> 1000, days |-> 16, sample |-> <<1, 2>>]

StoredOrder == SalesOrderHeader(_generateFallbackData(StoredDraw), 1)

StoredDetails ==
    Inserted([i \in 1..2 |->
                 SalesOrderDetail(OrderDetailsOf(_generateFallbackData(StoredDraw))[i], 1)],
             1)

\* a job that has emitted 'processing' and 'extracted' for an upload without
\* enough text, carries fallback data and is about to store it (line 127)
ShortUpload == Document("jpg", Returns(EmptyText), Returns(T_short), Raises)

ExtractedShortUpload(rnd) ==
    extractInvoiceData(ShortUpload, LlmRaises, rnd, FALSE, FALSE, 0)

\* the invoice number of the stored order or a new one, and one product
StoreDraws == [num : {1000, 9999}, days : {16}, sample : {<<3>>}]

InitStore ==
    /\ clientAvailable = FALSE
    /\ easyocrAvailable = FALSE
    /\ hashSeed = 0
    /\ \E rnd \in StoreDraws :
        LET res == ExtractedShortUpload(rnd)
        IN  /\ extractedData = [j \in AllJobs |-> IF j \in Jobs THEN res.ret ELSE NoData]
            /\ data = [j \in AllJobs |->
                          IF j \in Jobs THEN res.ret.fallback_data ELSE NoData]
            /\ calls = [j \in AllJobs |-> IF j \in Jobs THEN res.calls ELSE <<>>]
            /\ events = [j \in AllJobs |->
                            IF j \in Jobs
                            THEN << Event("processing", "Extracting data from document...",
                                          NoData, 0),
                                    Event("extracted", "Data extracted successfully",
                                          res.ret.fallback_data, 0) >>
                            ELSE <<>>]
    /\ pc = [j \in AllJobs |-> IF j \in Jobs THEN "add_header" ELSE "idle"]
    /\ doc = [j \in AllJobs |-> IF j \in Jobs THEN ShortUpload ELSE NoDocument]
    /\ appInstance = [j \in AllJobs |-> IF j \in Jobs THEN "app" ELSE "None"]
    /\ llmResponse = [j \in AllJobs |-> IF j \in Jobs THEN LlmRaises ELSE NoResponse]
    /\ order = [j \in AllJobs |-> <<>>]
    /\ session = [j \in AllJobs |-> NoSession]
    /\ emitRaised = [j \in AllJobs |-> FALSE]
    /\ faults = [j \in AllJobs |-> FALSE]
    /\ ocrReader = "None"
    /\ sawReader = [j \in AllJobs |-> "untested"]
    /\ headers = {StoredOrder}
    /\ details = StoredDetails
    /\ nextOrderId = 2
    /\ nextDetailId = 3
    /\ candidate = NoData
    /\ cleanedData = NotRun
    /\ recleaned = NotRun
    /\ subject = NoData
    /\ runs = <<>>

\* lines 127-200 of processDocument
Persist(j) ==
    \/ AddHeader(j)
    \/ AddDetail(j)
    \/ Commit(j)
    \/ EmitCompleted(j)
    \/ Rollback(j)
    \/ EmitDbError(j)
    \/ EmitProcessingError(j)

NextStore ==
    \/ \E j \in Jobs : Persist(j)
    \/ updateInvoiceDetails
    \/ deleteInvoiceDetail
    \/ deleteInvoice

SpecStore == InitStore /\ [][NextStore]_vars

(***************************************************************************)
(* Two jobs started by socketio.start_background_task for two uploads.     *)
(* They share llmService (routes.py 16) with its lazily created OCR reader *)
(* and the store; the test of ocrReader and its assignment are separate    *)
(* steps of a job, so that both jobs may find it None.                     *)
(***************************************************************************)
TextUpload == Document("pdf", Returns(T_inv100), Raises, Raises)
ScannedUpload == Document("pdf", Returns(T_short), Returns(T_rawdate), Raises)
ImageUpload == Document("png", Returns(EmptyText), Returns(T_nomatch), Raises)

\* the same document twice, two scans, a scan and a text document
UploadPairs ==
    { <<TextUpload, TextUpload>>,
      <<ImageUpload, ScannedUpload>>,
      <<ImageUpload, TextUpload>> }

UsesOcr(j) ==
    LET steps == extractTextFromDocumentSteps(doc[j], easyocrAvailable, clientAvailable)
    IN  \E i \in 1..Len(steps) : steps[i] = "ocr"

\* llm_service.py lines 102 and 152: if self.ocrReader is None
TestOcrReader(j) ==
    /\ pc[j] = "extract"
    /\ UsesOcr(j)
    /\ sawReader[j] = "untested"
    /\ sawReader' = [sawReader EXCEPT ![j] = IF ocrReader = "None" THEN "None" ELSE "set"]
    /\ UNCHANGED <<ocrReader, faults, harness, normalizer, llmResponse, service, args, store,
                   pc, extractedData, data, order, session, events, emitRaised, calls>>

\* lines 104 and 153: self.ocrReader = self.easyocr.Reader(['en'], gpu=False)
CreateOcrReader(j) ==
    /\ pc[j] = "extract"
    /\ sawReader[j] = "None"
    /\ ocrReader' = j
    /\ sawReader' = [sawReader EXCEPT ![j] = "set"]
    /\ UNCHANGED <<faults, harness, normalizer, llmResponse, service, args, store,
                   pc, extractedData, data, order, session, events, emitRaised, calls>>

\* an extraction that keeps its result in a field of the shared service, from
\* which every job that has not yet tested its own result takes it
ExtractIntoSharedField(j) ==
    /\ pc[j] = "extract"
    /\ UsesOcr(j) => sawReader[j] = "set"
    /\ \E r \in LlmResponses, rnd \in Draws :
        LET res == extractInvoiceData(doc[j], r, rnd, easyocrAvailable,
                                      clientAvailable, hashSeed)
        IN  /\ extractedData' = [k \in AllJobs |->
                                    IF k = j \/ pc[k] = "check" THEN res.ret
                                    ELSE extractedData[k]]
            /\ llmResponse' = [llmResponse EXCEPT ![j] = r]
            /\ Called(j, res.calls)
    /\ pc' = [pc EXCEPT ![j] = "check"]
    /\ UNCHANGED <<reader, faults, harness, normalizer, service, args, store, data, order,
                   session, events, emitRaised>>

\* lines 107 and 159: self.ocrReader.readtext, and the rest of
\* extractInvoiceData; what is read does not depend on which job created the
\* reader
ReadAndExtract(j) ==
    /\ UsesOcr(j) => sawReader[j] = "set"
    /\ Extract(j)

InitConcurrent ==
    /\ clientAvailable = FALSE
    /\ easyocrAvailable = TRUE
    /\ hashSeed = 0
    /\ \E pair \in UploadPairs :
           doc = [j \in AllJobs |-> IF j \in Jobs THEN pair[1] ELSE pair[2]]
    /\ pc = [j \in AllJobs |-> "start"]
    /\ appInstance = [j \in AllJobs |-> "app"]
    /\ extractedData = [j \in AllJobs |-> NoData]
    /\ data = [j \in AllJobs |-> NoData]
    /\ order = [j \in AllJobs |-> <<>>]
    /\ session = [j \in AllJobs |-> NoSession]
    /\ events = [j \in AllJobs |-> <<>>]
    /\ emitRaised = [j \in AllJobs |-> FALSE]
    /\ calls = [j \in AllJobs |-> <<>>]
    /\ faults = [j \in AllJobs |-> FALSE]
    /\ ocrReader = "None"
    /\ sawReader = [j \in AllJobs |-> "untested"]
    /\ headers = {}
    /\ details = {}
    /\ nextOrderId = 1
    /\ nextDetailId = 1
    /\ llmResponse = [j \in AllJobs |-> NoResponse]
    /\ candidate = NoData
    /\ cleanedData = NotRun
    /\ recleaned = NotRun
    /\ subject = NoData
    /\ runs = <<>>

StepConcurrent(j) ==
    \/ Start(j)
    \/ EnterContext(j)
    \/ EmitProcessing(j)
    \/ TestOcrReader(j)
    \/ CreateOcrReader(j)
    \/ ReadAndExtract(j)
    \/ CheckExtraction(j)
    \/ EmitExtracted(j)
    \/ AddHeader(j)
    \/ Commit(j)
    \/ EmitCompleted(j)
    \/ Rollback(j)
    \/ EmitDbError(j)
    \/ EmitProcessingError(j)

NextConcurrent == \E j \in AllJobs : StepConcurrent(j)

SpecConcurrent == InitConcurrent /\ [][NextConcurrent]_vars

(***************************************************************************)
(* What the claims speak of.                                               *)
(***************************************************************************)
HasStatus(j, st) == \E i \in 1..Len(events[j]) : events[j][i].status = st

CountStatus(j, sts) ==
    Cardinality({ i \in 1..Len(events[j]) : events[j][i].status \in sts })

\* the text the job's extraction works on
DocumentTextOf(j) == extractTextFromDocument(doc[j], easyocrAvailable, clientAvailable)

\* the job's record is the fallback_data of a failed extraction
FromFallback(j) == data[j] # NoData /\ HasKey(extractedData[j], "fallback_data")

\* the committed rows that belong to the order the job built
WrittenHeaders(j) ==
    IF order[j] = <<>> THEN {}
    ELSE { h \in headers : h.orderId = order[j][1].orderId }

WrittenDetails(j) ==
    IF order[j] = <<>> THEN {}
    ELSE { d \in details : d.orderId = order[j][1].orderId }

\* the detail rows the job's record asks for, without their detail_id
WantedDetails(j) ==
    { SalesOrderDetail(OrderDetailsOf(data[j])[i], order[j][1].orderId) :
        i \in 1..Len(OrderDetailsOf(data[j])) }

Unnumbered(ds) == { [d EXCEPT !.detailId = 0] : d \in ds }

\* header and every line item of the job's record are committed
FullyStored(j) ==
    /\ WrittenHeaders(j) = {order[j][1]}
    /\ order[j][1] = SalesOrderHeader(data[j], order[j][1].orderId)
    /\ Cardinality(WrittenDetails(j)) = Len(OrderDetailsOf(data[j]))
    /\ Unnumbered(WrittenDetails(j)) = WantedDetails(j)

IsStoreCall(c) == c \in {"flush", "add", "commit", "rollback"}
IsPipelineCall(c) == ~IsStoreCall(c)

\* the calls extractInvoiceData made for the job
PipelineCalls(j) == SelectSeq(calls[j], IsPipelineCall)

(***************************************************************************)
(* C1.  A synthetic fallback record is never written to the store: in      *)
(* every run where the job's data comes from fallback_data, the job adds   *)
(* no header and no detail to the session and commits none.                *)
(* (Violated: processDocument persists fallback_data like any record.)     *)
(***************************************************************************)
C1_FallbackNeverStored ==
    \A j \in Jobs :
        FromFallback(j) =>
            /\ session[j] = NoSession
            /\ WrittenHeaders(j) = {}
            /\ WrittenDetails(j) = {}

(***************************************************************************)
(* C2.  When text extraction returns fewer than 10 characters, the job's   *)
(* last emitted status is 'error', the fallback record is offered with it, *)
(* and the job never emits 'completed'.                                    *)
(* (Violated: the job emits 'extracted' and goes on to 'completed'.)       *)
(***************************************************************************)
C2_ShortTextEndsInError ==
    \A j \in Jobs :
        (PipelineCalls(j) # <<>> /\ DocumentTextOf(j).len < 10) =>
            /\ ~HasStatus(j, "completed")
            /\ pc[j] = "done" =>
                /\ events[j] # <<>>
                /\ Last(events[j]).status = "error"
                /\ HasKey(extractedData[j], "fallback_data")

(***************************************************************************)
(* C3.  Each run of processDocument that has ended emitted exactly one     *)
(* terminal status event ('completed' or 'error'), and it is the last      *)
(* event, whatever failed during application-context setup, extraction or  *)
(* persistence.                                                            *)
(* (Violated: a failure entering the application context ends the job      *)
(* with no event at all.)                                                  *)
(***************************************************************************)
C3_OneTerminalEvent ==
    \A j \in Jobs :
        pc[j] = "done" =>
            /\ CountStatus(j, {"completed", "error"}) = 1
            /\ Last(events[j]).status \in {"completed", "error"}

(***************************************************************************)
(* C4.  In every job run the 'processing' event is the first event         *)
(* emitted, and it is emitted before extractInvoiceData is called: no      *)
(* extraction call has been made while the job has emitted nothing.        *)
(***************************************************************************)
C4_ProcessingFirst ==
    \A j \in Jobs :
        /\ events[j] # <<>> => events[j][1].status = "processing"
        /\ (calls[j] # <<>> \/ extractedData[j] # NoData) =>
               /\ events[j] # <<>>
               /\ events[j][1].status = "processing"

\* a job that has run the extraction and emitted a second event
C4_Witness ==
    \E j \in Jobs :
        /\ PipelineCalls(j) # <<>>
        /\ Len(events[j]) >= 2
        /\ events[j][1].status = "processing"
        /\ events[j][2].status \in {"extracted", "error"}

(***************************************************************************)
(* C5.  A job emits 'completed' only after an 'extracted' event for the    *)
(* same record and only once the header and all line items of that record  *)
(* are committed; the event carries the identifier assigned to the stored  *)
(* header and its stored representation.  'extracted' is emitted at most   *)
(* once per job.                                                           *)
(***************************************************************************)
C5_CompletedAfterExtractedAndCommit ==
    \A j \in Jobs :
        /\ CountStatus(j, {"extracted"}) <= 1
        /\ \A i \in 1..Len(events[j]) :
            events[j][i].status = "completed" =>
                /\ \E k \in 1..(i - 1) :
                    /\ events[j][k].status = "extracted"
                    /\ events[j][k].data = data[j]
                /\ order[j] # <<>>
                /\ FullyStored(j)
                /\ events[j][i].orderId = order[j][1].orderId
                /\ events[j][i].data = toDict(order[j][1].orderId, headers, details)

\* a record with two line items was stored and 'completed' emitted
C5_Witness ==
    \E j \in Jobs :
        /\ HasStatus(j, "completed")
        /\ Len(OrderDetailsOf(data[j])) >= 2
        /\ Cardinality(WrittenDetails(j)) >= 2

(***************************************************************************)
(* C6.  Persistence of one job is atomic: in every state of the store the  *)
(* header the job built is present together with all line items of the     *)
(* job's record, or neither the header nor any of its line items is        *)
(* present; when a line item of the record cannot be inserted, no header   *)
(* from the job is in the store.                                           *)
(***************************************************************************)
C6_AtomicPersistence ==
    \A j \in Jobs :
        order[j] # <<>> =>
            /\ \/ WrittenHeaders(j) = {} /\ WrittenDetails(j) = {}
               \/ FullyStored(j)
            /\ (\E d \in WantedDetails(j) : ~DetailAccepted(d)) =>
                   WrittenHeaders(j) = {}

\* the commit failed on a line item after the header had been flushed, and
\* the job ended with nothing of it stored
C6_Witness ==
    \E j \in Jobs :
        /\ pc[j] = "done"
        /\ order[j] # <<>>
        /\ \E i \in 1..Len(calls[j]) : calls[j][i] = "commit"
        /\ \E d \in WantedDetails(j) : ~DetailAccepted(d)
        /\ WrittenHeaders(j) = {}
        /\ WrittenDetails(j) = {}

(***************************************************************************)
(* C7.  Whenever a job's last event is the 'error' of the 'Database error' *)
(* branch, the store contains no header and no line item written by that   *)
(* job, and an 'extracted' event carrying the record was emitted earlier.  *)
(* (Violated: a failure reading the order back after the commit, inside    *)
(* the same try block, takes that branch with the order already stored.)   *)
(***************************************************************************)
C7_DatabaseErrorLeavesNothing ==
    \A j \in Jobs :
        (events[j] # <<>> /\ Last(events[j]).message = "Database error") =>
            /\ WrittenHeaders(j) = {}
            /\ WrittenDetails(j) = {}
            /\ \E k \in 1..(Len(events[j]) - 1) :
                /\ events[j][k].status = "extracted"
                /\ events[j][k].data = data[j]

(***************************************************************************)
(* C8.  Event emission failures do not change the job: every step that     *)
(* emits an event moves the job to the same next step whether or not the   *)
(* emit raised, and leaves the extraction result, the record, the calls    *)
(* made, the session and the store as they were.                           *)
(***************************************************************************)
EmitSucc(p) ==
    CASE p = "emit_processing" -> "extract"
      [] p = "check" -> "done"
      [] p = "emit_extracted" -> "add_header"
      [] p = "emit_completed" -> "done"
      [] p = "emit_db_error" -> "done"
      [] p = "emit_processing_error" -> "done"
      [] OTHER -> "none"

C8_EmitFailuresChangeNothing ==
    [][\A j \in Jobs :
          events'[j] # events[j] =>
              /\ pc'[j] = EmitSucc(pc[j])
              /\ UNCHANGED <<store, extractedData, data, order, session, calls>>]_vars

\* a job some of whose emits raised stored its record and completed
C8_Witness ==
    \E j \in Jobs :
        /\ emitRaised[j]
        /\ pc[j] = "done"
        /\ Last(events[j]).status = "completed"
        /\ FullyStored(j)

(***************************************************************************)
(* C9.  processDocument never lets an exception escape to its caller:      *)
(* whatever fails, the job is never left at a raise, and a job that was    *)
(* started and has not returned can always take its next step.             *)
(***************************************************************************)
C9_NoExceptionEscapes ==
    \A j \in Jobs :
        /\ pc[j] # "escaped"
        /\ pc[j] \notin {"idle", "done"} => ENABLED Step(j)

\* the persistence failed, the rollback failed too, and the job returned
C9_Witness ==
    \E j \in Jobs :
        /\ pc[j] = "done"
        /\ \E i \in 1..Len(calls[j]) : calls[j][i] = "rollback"
        /\ Last(events[j]).message = "Processing error"

(***************************************************************************)
(* C10.  Every record that a job emits in an 'extracted' event or hands    *)
(* to persistence has passed through _cleanExtractedData: the normalizer   *)
(* is the last thing extractInvoiceData called to produce it, for model    *)
(* output, rule-based output and synthetic fallback alike.                 *)
(* (Violated: fallback_data comes from _generateFallbackData unnormalized.)*)
(***************************************************************************)
C10_EveryRecordNormalized ==
    \A j \in Jobs :
        (HasStatus(j, "extracted") \/ session[j] # NoSession \/ order[j] # <<>>) =>
            /\ PipelineCalls(j) # <<>>
            /\ Last(PipelineCalls(j)) = "_cleanExtractedData"

(***************************************************************************)
(* What the normalizer claims speak of.                                    *)
(***************************************************************************)
\* a value float() and int() do not accept: None, or a non-numeric string
NonCoercible(v) == v.k \in {"null", "junk"}

SuppliedTotal == Get(candidate, "total_amount", Num(0))
SuppliedTax == Get(candidate, "tax_amount", Num(0))
CleanedItems == cleanedData.value.order_details.items

(***************************************************************************)
(* C11.  The normalizer never fails: for every candidate mapping it        *)
(* returns a record, in which a total_amount or tax_amount that cannot be  *)
(* coerced is 0, and so are a line item's unit_price and line_total, and   *)
(* its quantity is 1.                                                      *)
(* (Violated: float(None), float("abc") and int(None) raise.)              *)
(***************************************************************************)
C11_NormalizerNeverFails ==
    cleanedData # NotRun =>
        /\ cleanedData.state = "returned"
        /\ NonCoercible(SuppliedTotal) => cleanedData.value.total_amount = Num(0)
        /\ NonCoercible(SuppliedTax) => cleanedData.value.tax_amount = Num(0)
        /\ \A i \in 1..Len(CleanedItems) :
            LET e == DetailDicts(candidate)[i]
            IN  /\ NonCoercible(Get(e, "quantity", Num(1))) =>
                       CleanedItems[i].quantity = Num(1)
                /\ NonCoercible(Get(e, "unit_price", Num(0))) =>
                       CleanedItems[i].unit_price = Num(0)
                /\ NonCoercible(Get(e, "line_total", Num(0))) =>
                       CleanedItems[i].line_total = Num(0)

(***************************************************************************)
(* C12.  Normalization is idempotent: for every candidate on which the     *)
(* normalizer returns, normalizing the returned record returns that same   *)
(* record, field by field, line items and header total included.           *)
(***************************************************************************)
C12_Idempotent ==
    recleaned # NotRun =>
        /\ recleaned.state = "returned"
        /\ recleaned.value = cleanedData.value
        /\ \A key \in DOMAIN cleanedData.value :
            recleaned.value[key] = cleanedData.value[key]

\* the first pass changed the candidate: it filled the invoice number, a
\* line total and the header total; the second pass was made
C12_Witness ==
    /\ recleaned.state = "returned"
    /\ ~HasKey(candidate, "invoice_number")
    /\ cleanedData.value.total_amount # SuppliedTotal
    /\ cleanedData.value.tax_amount.n # 0
    /\ \E i \in 1..Len(CleanedItems) :
        /\ ~HasKey(DetailDicts(candidate)[i], "line_total")
        /\ CleanedItems[i].line_total.n # 0

(***************************************************************************)
(* C13.  For every candidate whose total_amount is 0 or absent, with zero  *)
(* or more line items and any tax_amount, the cleaned total_amount equals  *)
(* the sum of the cleaned line items' line_total plus the cleaned          *)
(* tax_amount.                                                             *)
(* (Violated: with no line items the total stays 0 whatever the tax.)      *)
(***************************************************************************)
C13_ZeroTotalRecomputed ==
    (cleanedData.state = "returned" /\ Float(SuppliedTotal) = 0) =>
        cleanedData.value.total_amount.n =
            SumSeq(LineTotals(CleanedItems)) + cleanedData.value.tax_amount.n

C15_LineTotal ==
    cleanedData.state = "returned" =>
        \A i \in 1..Len(CleanedItems) :
            LET supplied == Float(Get(DetailDicts(candidate)[i], "line_total", Num(0)))
                c == CleanedItems[i]
            IN  IF supplied = 0
                THEN c.line_total.n = c.quantity.n * c.unit_price.n
                ELSE c.line_total.n = supplied

\* one item whose line total was computed and one that kept its own
C15_Witness ==
    /\ cleanedData.state = "returned"
    /\ \E i, k \in 1..Len(CleanedItems) :
        /\ ~HasKey(DetailDicts(candidate)[i], "line_total")
        /\ CleanedItems[i].line_total.n = 3000
        /\ HasKey(DetailDicts(candidate)[k], "line_total")
        /\ CleanedItems[k].line_total.n # 0
        /\ CleanedItems[k].line_total.n
               # CleanedItems[k].quantity.n * CleanedItems[k].unit_price.n

(***************************************************************************)
(* C16.  Every record the normalizer returns is within the numeric ranges  *)
(* of the data model: total_amount >= 0, tax_amount >= 0, and for each     *)
(* line item quantity >= 1, unit_price >= 0 and line_total >= 0.           *)
(* (Violated: zero and negative supplied values are kept as they are.)     *)
(***************************************************************************)
C16_NumericRanges ==
    cleanedData.state = "returned" =>
        /\ cleanedData.value.total_amount.n >= 0
        /\ cleanedData.value.tax_amount.n >= 0
        /\ \A i \in 1..Len(CleanedItems) :
            /\ CleanedItems[i].quantity.n >= 1
            /\ CleanedItems[i].unit_price.n >= 0
            /\ CleanedItems[i].line_total.n >= 0

(***************************************************************************)
(* C17.  Every record the normalizer returns has a customer name: when     *)
(* the candidate has no customer_name key, or holds the empty string the   *)
(* rule-based extractor leaves when nothing matched, the cleaned           *)
(* customer_name is "Unknown Customer".                                    *)
(* (Violated: the default applies to a missing key only; "" is kept.)      *)
(***************************************************************************)
C17_CustomerNameDefault ==
    (/\ cleanedData.state = "returned"
     /\ HasKey(candidate, "customer_name") => candidate.customer_name = "") =>
        cleanedData.value.customer_name = "Unknown Customer"

(***************************************************************************)
(* C18.  When a record's order date is absent, empty, or a string that     *)
(* matches none of the accepted formats, the header the job builds for it  *)
(* has the current date as its order date, so that the date does not fail  *)
(* the job.                                                                *)
(* (Violated: a string that matches no format leaves orderDate None, which *)
(* the NOT NULL order_date column rejects at the flush.)                   *)
(***************************************************************************)
DateUnusable(rec) ==
    LET s == Get(rec, "order_date", NullStr)
    IN  \/ ~Truthy(s)
        \/ s # NonStr /\ FirstParse(s, RouteFormats, 1) = 0

C18_UnusableDateBecomesToday ==
    \A j \in Jobs :
        (data[j] # NoData /\ DateUnusable(data[j])) =>
            /\ SalesOrderHeader(data[j], nextOrderId).orderDate = Today
            /\ HeaderAccepted(SalesOrderHeader(data[j], nextOrderId), {})

(***************************************************************************)
(* C19.  With sufficient text, any failure of the structured extraction    *)
(* (no credential, an exception in the model call, an empty response, or a *)
(* response whose JSON cannot be repaired) makes extractInvoiceData run    *)
(* the rule-based extractor on the same text and return its cleaned result *)
(* without an 'error' key; the rule-based extractor is not run when the    *)
(* model call succeeded.                                                   *)
(***************************************************************************)
RanLocalExtraction(j) ==
    \E i \in 1..Len(calls[j]) : calls[j][i] = "_localExtraction"

C19_RuleBasedOnModelFailure ==
    \A j \in Jobs :
        (extractedData[j] # NoData /\ DocumentTextOf(j).len >= 10) =>
            IF HasKey(callLlmApi(llmResponse[j], clientAvailable), "error")
            THEN /\ RanLocalExtraction(j)
                 /\ ~HasKey(extractedData[j], "error")
                 /\ extractedData[j] =
                        WithPreview(
                            _cleanExtractedData(
                                _localExtraction(DocumentTextOf(j), hashSeed),
                                hashSeed),
                            DocumentTextOf(j))
            ELSE ~RanLocalExtraction(j)

\* the model was available and its answer could not be repaired; the
\* rule-based result was returned
C19_Witness ==
    \E j \in Jobs :
        /\ clientAvailable
        /\ llmResponse[j] = LlmText(<<"{", "k", "{", "m">>, <<>>)
        /\ RanLocalExtraction(j)
        /\ extractedData[j] # NoData
        /\ ~HasKey(extractedData[j], "error")
        /\ extractedData[j].invoice_number = "INV-100"

(***************************************************************************)
(* C20.  Text below the minimum-character threshold is never used as       *)
(* extraction input: in every run of extractInvoiceData in which the       *)
(* extracted text is empty or shorter than 10 characters, neither          *)
(* callLlmApi nor _localExtraction is invoked.                             *)
(***************************************************************************)
C20_ShortTextNotExtracted ==
    \A j \in Jobs :
        (PipelineCalls(j) # <<>> /\ DocumentTextOf(j).len < 10) =>
            \A i \in 1..Len(calls[j]) :
                calls[j][i] \notin {"callLlmApi", "_localExtraction"}

\* extractInvoiceData ran on a five-character text with the model available
C20_Witness ==
    \E j \in Jobs :
        /\ clientAvailable
        /\ PipelineCalls(j) # <<>>
        /\ DocumentTextOf(j).len = 5
        /\ HasKey(extractedData[j], "fallback_data")

(***************************************************************************)
(* What the text extraction claims speak of.                               *)
(***************************************************************************)
Did(step) == \E i \in 1..Len(runs[1].steps) : runs[1].steps[i] = step

IsPdf == subject.fileType = "pdf"

\* the OCR ran and read more than n characters
OcrReadMoreThan(n) ==
    easyocrAvailable /\ ~subject.ocr.raises /\ LongerThan(subject.ocr.text, n)

(***************************************************************************)
(* C21.  For a PDF whose native text layer yields more than 100            *)
(* characters, extractTextFromPdf returns exactly that native text and     *)
(* performs no OCR step in that run.                                       *)
(***************************************************************************)
C21_NativeTextFirst ==
    (runs # <<>> /\ IsPdf /\ LongerThan(subject.native.text, 100)) =>
        /\ runs[1].text = subject.native.text
        /\ ~Did("ocr")
        /\ ~Did("_extractViaGeminiVision")

\* a PDF with 101 native characters whose OCR would have read 101 too
C21_Witness ==
    /\ runs # <<>>
    /\ IsPdf
    /\ subject.native.text.len = 101
    /\ OcrReadMoreThan(100)
    /\ runs[1].text.id = "native"

(***************************************************************************)
(* C22.  For a PDF whose native text has at most 100 characters: OCR is    *)
(* attempted exactly when the OCR engine is available; the OCR text is     *)
(* returned exactly when it has more than 100 characters; in every other   *)
(* case (OCR unavailable, OCR raising, OCR text too short) the partial     *)
(* native text is returned, possibly empty.                                *)
(***************************************************************************)
C22_PdfOcrFallback ==
    (runs # <<>> /\ IsPdf /\ ~LongerThan(subject.native.text, 100)) =>
        /\ Did("ocr") <=> easyocrAvailable
        /\ IF OcrReadMoreThan(100)
           THEN runs[1].text = subject.ocr.text
           ELSE runs[1].text = subject.native.text

\* the OCR ran and read exactly 100 characters: the 50 native ones are kept
C22_Witness ==
    /\ runs # <<>>
    /\ IsPdf
    /\ Did("ocr")
    /\ ~subject.ocr.raises
    /\ subject.ocr.text.len = 100
    /\ runs[1].text = TextOfLen("native", 50)

(***************************************************************************)
(* C23.  For an image, the vision-model fallback is called exactly when    *)
(* OCR is unavailable, OCR raises, or OCR returns at most 10 characters;   *)
(* when OCR returns more than 10 characters that text is returned and the  *)
(* vision model is never invoked; when the fallback is needed and no model *)
(* credential is available, the result is the empty string.                *)
(***************************************************************************)
C23_ImageVisionFallback ==
    (runs # <<>> /\ ~IsPdf) =>
        /\ Did("_extractViaGeminiVision") <=> ~OcrReadMoreThan(10)
        /\ OcrReadMoreThan(10) =>
               /\ runs[1].text = subject.ocr.text
               /\ ~Did("generate_content")
        /\ (~OcrReadMoreThan(10) /\ ~clientAvailable) =>
               /\ runs[1].text = EmptyText
               /\ ~Did("generate_content")
        /\ (~OcrReadMoreThan(10) /\ clientAvailable) =>
               /\ Did("generate_content")
               /\ runs[1].text =
                      IF subject.vision.raises THEN EmptyText
                      ELSE subject.vision.text

\* the OCR read exactly 10 characters and the vision model read the image
C23_Witness ==
    /\ runs # <<>>
    /\ ~IsPdf
    /\ easyocrAvailable
    /\ ~subject.ocr.raises
    /\ subject.ocr.text.len = 10
    /\ Did("generate_content")
    /\ runs[1].text = TextOfLen("vision", 60)

(***************************************************************************)
(* C24.  extractTextFromDocument always returns a string and never         *)
(* raises: for pdf and image inputs and every combination of failures      *)
(* (unreadable file, missing OCR engine, OCR exception, model failure) the *)
(* failure counts as insufficient text and the next stage, or an empty or  *)
(* partial string, follows.                                                *)
(***************************************************************************)
C24_TextExtractionNeverRaises ==
    runs # <<>> =>
        /\ runs[1].text # Propagates
        /\ runs[1].text \in {EmptyText, subject.native.text, subject.ocr.text,
                             subject.vision.text}
        /\ (IsPdf /\ subject.native.raises /\ ~OcrReadMoreThan(100)) =>
               runs[1].text = subject.native.text
        /\ (~IsPdf /\ easyocrAvailable /\ subject.ocr.raises) =>
               /\ Did("_extractViaGeminiVision")
               /\ (clientAvailable /\ ~subject.vision.raises) =>
                      runs[1].text = subject.vision.text
        /\ (~IsPdf /\ ~OcrReadMoreThan(10) /\ subject.vision.raises) =>
               runs[1].text = EmptyText

\* the OCR raised on an image, the vision model raised too, and the call
\* returned the empty string
C24_Witness ==
    /\ runs # <<>>
    /\ ~IsPdf
    /\ easyocrAvailable
    /\ clientAvailable
    /\ subject.ocr.raises
    /\ subject.vision.raises
    /\ runs[1].text = EmptyText
    /\ runs[1].steps = <<"ocr", "_extractViaGeminiVision", "generate_content">>

(***************************************************************************)
(* What the JSON repair claims speak of.                                   *)
(***************************************************************************)
Has(text, tok) == \E i \in 1..Len(text) : text[i] = tok

IsErrorResult(v) == HasKey(v, "error") /\ HasKey(v, "raw_response")

(***************************************************************************)
(* C25.  _parseJsonResponse returns the parsed object found between the    *)
(* first '{' and the last '}' after stripping a leading and a trailing     *)
(* code fence, so a fenced object and an object preceded by prose both     *)
(* yield the object; when the response has an opening brace and no closing *)
(* brace at all, one '}' is appended and parsing is retried once, so       *)
(* 'prefix {"a":1' yields {"a": 1}.                                        *)
(* (Violated: an opening fence directly followed by the object loses the   *)
(* object with its first line, and a fenced object preceded by a line of   *)
(* prose is cut away with its closing fence.)                              *)
(***************************************************************************)
C25_RepairFindsTheObject ==
    runs # <<>> =>
        /\ \A c \in ObjectTexts :
               subject.tokens \in Fenced(c) \cup InProse(c) \cup {c} =>
                   runs[1] = Returned(ObjectValue(c))
        /\ subject.tokens \in { <<"p", "{", "m">>, <<"{", "m">> } =>
               runs[1] = Returned(ObjectA)

(***************************************************************************)
(* C26.  The JSON repair never raises: for every response text it returns  *)
(* either a parsed object or an error result with an 'error' message and a *)
(* 'raw_response' preview of at most 200 characters; text with no '{'      *)
(* yields the error result and never a parsed value.                       *)
(* (Violated: json.loads raises RecursionError on deeply nested arrays,    *)
(* and only json.JSONDecodeError is caught.)                               *)
(***************************************************************************)
C26_RepairNeverRaises ==
    runs # <<>> =>
        /\ ~runs[1].raises
        /\ HasKey(runs[1].value, "error") =>
               /\ IsErrorResult(runs[1].value)
               /\ runs[1].value.raw_response <= 200
        /\ ~Has(subject.tokens, "{") => IsErrorResult(runs[1].value)

(***************************************************************************)
(* C27.  Rule-based extraction is deterministic in its placeholder: two    *)
(* runs of _localExtraction on the same text in which no invoice-number    *)
(* pattern matches produce the same invoice_number, of the form 'INV-'     *)
(* followed by four zero-padded digits derived from a hash of the text.    *)
(* (Violated: hash() of a string depends on the process's hash seed, so    *)
(* the placeholder changes when the service is restarted.)                 *)
(***************************************************************************)
FourDigits == { Pad4(n) : n \in 0..9999 }

C27_PlaceholderDeterministic ==
    subject.invs = <<>> =>
        \A a, b \in 1..Len(runs) :
            /\ runs[a].invoice_number = runs[b].invoice_number
            /\ \E digits \in FourDigits : runs[a].invoice_number = "INV-" \o digits

(***************************************************************************)
(* C29.  In rule-based extraction over a text with several matches per     *)
(* label: total_amount is taken from the last match, with thousands        *)
(* separators removed, and stays 0 when that match cannot be parsed;       *)
(* customer_name and invoice_number are taken from the first match,        *)
(* trimmed.                                                                *)
(***************************************************************************)
\* float(s.replace(',', '')) in cents, as the claim expects it
ExpectedAmount(s) ==
    CASE s = "1,200.00" -> 120000
      [] s = "950.00" -> 95000
      [] s = "30" -> 3000
      [] OTHER -> 0

ExpectedName(s) ==
    CASE s = "  Acme Corp " -> "Acme Corp"
      [] s = "Bolt Ltd  " -> "Bolt Ltd"
      [] OTHER -> s

C29_LastTotalFirstNames ==
    \A a \in 1..Len(runs) :
        /\ subject.totals # <<>> =>
               runs[a].total_amount =
                   Num(ExpectedAmount(subject.totals[Len(subject.totals)]))
        /\ subject.names # <<>> =>
               runs[a].customer_name = ExpectedName(subject.names[1])
        /\ subject.invs # <<>> => runs[a].invoice_number = subject.invs[1]

\* two totals of which the last is the larger, two names and two numbers
C29_Witness ==
    /\ runs # <<>>
    /\ subject.totals = <<"950.00", "1,200.00">>
    /\ subject.names = <<"Bolt Ltd  ", "  Acme Corp ">>
    /\ subject.invs = <<"INV-007", "INV-100">>
    /\ runs[1].total_amount = Num(120000)
    /\ runs[1].customer_name = "Bolt Ltd"
    /\ runs[1].invoice_number = "INV-007"

(***************************************************************************)
(* C30.  In rule-based extraction, order_date is taken from the last date  *)
(* match and parsed against MM/DD/YYYY, DD/MM/YYYY, MM-DD-YYYY,            *)
(* YYYY-MM-DD, DD-MM-YYYY in that order: the first format that parses      *)
(* decides the result, written in ISO form (03/04/2024 becomes             *)
(* 2024-03-04); when no format parses, the raw matched string is kept.     *)
(***************************************************************************)
ExpectedDate(s) ==
    CASE s = "01/15/2024" -> "2024-01-15"   \* MM/DD/YYYY
      [] s = "15/01/2024" -> "2024-01-15"   \* DD/MM/YYYY
      [] s = "03/04/2024" -> "2024-03-04"   \* both parse, MM/DD/YYYY first
      [] s = "01-15-2024" -> "2024-01-15"   \* MM-DD-YYYY
      [] s = "15-01-2024" -> "2024-01-15"   \* DD-MM-YYYY
      [] OTHER -> s                         \* 01/15/24, 13/13/2024

C30_LastDateFirstFormat ==
    \A a \in 1..Len(runs) :
        subject.dates # <<>> =>
            runs[a].order_date = ExpectedDate(subject.dates[Len(subject.dates)])

\* the ambiguous date is the last of two matches
C30_Witness ==
    /\ runs # <<>>
    /\ subject.dates = <<"01/15/2024", "03/04/2024">>
    /\ runs[1].order_date = "2024-03-04"

(***************************************************************************)
(* C28.  Retries of the same document whose extraction failed are          *)
(* reproducible in the invoice number: two runs of extractInvoiceData on   *)
(* the same document that both end with no invoice number extracted,       *)
(* including runs that return synthetic fallback data, yield records with  *)
(* the same invoice_number.                                                *)
(* (Violated: the synthetic record's number is drawn with random.randint.) *)
(***************************************************************************)
\* the record a run hands on: the synthetic one when it reports an error
RecordOf(run) ==
    IF HasKey(run.ret, "error") THEN run.ret.fallback_data ELSE run.ret

MadeCall(run, name) == \E i \in 1..Len(run.calls) : run.calls[i] = name

\* the run found no invoice number in the document
NoInvoiceNumberExtracted(run) ==
    \/ HasKey(run.ret, "error")
    \/ /\ MadeCall(run, "_localExtraction")
       /\ extractTextFromDocument(subject.doc, easyocrAvailable,
                                  clientAvailable).invs = <<>>
    \/ /\ ~MadeCall(run, "_localExtraction")
       /\ ~HasKey(subject.r.value, "invoice_number")

C28_RetriesReproducible ==
    \A a, b \in 1..Len(runs) :
        (NoInvoiceNumberExtracted(runs[a]) /\ NoInvoiceNumberExtracted(runs[b])) =>
            RecordOf(runs[a]).invoice_number = RecordOf(runs[b]).invoice_number

(***************************************************************************)
(* C31.  Every synthetic fallback record is internally consistent: it has  *)
(* between 1 and 3 distinct line items, each with line_total equal to      *)
(* quantity times unit_price; its tax_amount equals 6.875% of the sum of   *)
(* the line totals rounded to 2 decimals; and its total_amount equals the  *)
(* sum of its line totals plus its tax_amount.                             *)
(***************************************************************************)
RECURSIVE SumOfLineTotals(_)
SumOfLineTotals(items) ==
    IF items = <<>> THEN 0
    ELSE Head(items).line_total.n + SumOfLineTotals(Tail(items))

\* t cents is x cents rounded to the nearest cent, x = 6.875% of sub = 11 * sub / 160
IsTaxOf(t, sub) == 160 * t - 11 * sub \in -80..80

C31_FallbackConsistent ==
    runs # <<>> =>
        LET items == runs[1].order_details.items
        IN  /\ Len(items) \in 1..3
            /\ \A a, b \in 1..Len(items) :
                   a # b => items[a].product_name # items[b].product_name
            /\ \A a \in 1..Len(items) :
                   items[a].line_total.n = items[a].quantity.n * items[a].unit_price.n
            /\ IsTaxOf(runs[1].tax_amount.n, SumOfLineTotals(items))
            /\ runs[1].total_amount.n
                   = SumOfLineTotals(items) + runs[1].tax_amount.n

\* three line items: 5000.00 + 6000.00 + 2250.00, tax 910.94, total 14160.94
C31_Witness ==
    /\ runs # <<>>
    /\ Len(runs[1].order_details.items) = 3
    /\ SumOfLineTotals(runs[1].order_details.items) = 1325000
    /\ runs[1].tax_amount = Num(91094)
    /\ runs[1].total_amount = Num(1416094)

(***************************************************************************)
(* C32: for a document with sufficient text and no available model, a job  *)
(* that met no failure of the application context or of the database and   *)
(* whose invoice number is not stored yet never calls the model, runs the  *)
(* rule-based extractor and the normalizer, emits 'processing',            *)
(* 'extracted' and 'completed' in that order, and stores a header whose    *)
(* invoice number, total amount and order date are the rule-based values.  *)
(***************************************************************************)
StatusesOf(j) == [i \in 1..Len(events[j]) |-> events[j][i].status]

RuleBasedOf(j) == _localExtraction(DocumentTextOf(j), hashSeed)

RuleBasedRun(j) ==
    /\ pc[j] = "done"
    /\ DocumentTextOf(j).len >= 10
    /\ ~clientAvailable
    /\ ~faults[j]
    /\ \A o \in headers \ WrittenHeaders(j) :
           o.invoiceNumber # RuleBasedOf(j).invoice_number

C32_RuleBasedJobCompletes ==
    \A j \in Jobs :
        RuleBasedRun(j) =>
            /\ \A i \in 1..Len(calls[j]) : calls[j][i] # "callLlmApi"
            /\ \E a, b \in 1..Len(calls[j]) :
                   /\ a < b
                   /\ calls[j][a] = "_localExtraction"
                   /\ calls[j][b] = "_cleanExtractedData"
            /\ StatusesOf(j) = <<"processing", "extracted", "completed">>
            /\ \E h \in WrittenHeaders(j) :
                   /\ h.invoiceNumber = RuleBasedOf(j).invoice_number
                   /\ h.totalAmount = RuleBasedOf(j).total_amount.n
                   /\ Parses(RuleBasedOf(j).order_date, "%Y-%m-%d")
                          => h.orderDate = RuleBasedOf(j).order_date

(***************************************************************************)
(* C34: after a replacement of an order's line items that was answered     *)
(* with success the stored line items of the order are exactly the         *)
(* supplied ones and its totalAmount is the sum of their lineTotal plus    *)
(* its taxAmount; after a deletion of a line item that was answered with   *)
(* success the order's totalAmount is the sum of the remaining items'      *)
(* lineTotal plus its taxAmount.                                           *)
(***************************************************************************)
Answered(op, status) ==
    /\ runs # <<>>
    /\ runs[1].op = op
    /\ runs[1].status = status

ItemsOf(order_id, ds) == { d \in ds : d.orderId = order_id }

OrdersOf(order_id, hs) == { o \in hs : o.orderId = order_id }

IsSupplied(d, item) ==
    /\ d.productName = item.productName
    /\ d.quantity = item.quantity
    /\ d.unitPrice = item.unitPrice
    /\ d.lineTotal = IF "lineTotal" \in DOMAIN item THEN item.lineTotal
                     ELSE item.quantity * item.unitPrice

TotalInStep(order_id) ==
    /\ OrdersOf(order_id, headers) # {}
    /\ \A o \in OrdersOf(order_id, headers) :
           o.totalAmount = SumLineTotal(ItemsOf(order_id, details)) + o.taxAmount

C34_TotalFollowsLineItems ==
    /\ Answered("updateInvoiceDetails", 200) =>
           LET supplied == runs[1].payload.items
               stored == ItemsOf(runs[1].order_id, details)
           IN  /\ Cardinality(stored) = Len(supplied)
               /\ \A i \in 1..Len(supplied) : \E d \in stored : IsSupplied(d, supplied[i])
               /\ \A d \in stored : \E i \in 1..Len(supplied) : IsSupplied(d, supplied[i])
               /\ TotalInStep(runs[1].order_id)
    /\ Answered("deleteInvoiceDetail", 200) =>
           /\ \A d \in details : d.detailId # runs[1].detail_id
           /\ TotalInStep(runs[1].order_id)

\* the two stored products of order 1 replaced by Widget (2 x 10.00) and
\* Gadget (lineTotal 7.00 supplied): total 27.00 plus the order's tax
C34_Witness ==
    /\ Answered("updateInvoiceDetails", 200)
    /\ runs[1].order_id = 1
    /\ runs[1].payload = List(<<Widget, Gadget>>)
    /\ StoredOrder.taxAmount > 0
    /\ \E o \in headers :
           /\ o.orderId = 1
           /\ o.totalAmount = 2700 + StoredOrder.taxAmount

(***************************************************************************)
(* C35: after any sequence of job persistence, replacements and deletions  *)
(* of line items and deletions of orders, every stored line item           *)
(* references a stored header; an order deleted with success leaves none   *)
(* of its line items behind.                                               *)
(***************************************************************************)
C35_NoOrphanLineItem ==
    \A d \in details : \E o \in headers : o.orderId = d.orderId

\* order 1 and its two line items are gone after DELETE /api/invoices/1
C35_Witness ==
    /\ Answered("deleteInvoice", 200)
    /\ runs[1].order_id = 1
    /\ ItemsOf(1, StoredDetails) # {}
    /\ OrdersOf(1, headers) = {}
    /\ ItemsOf(1, details) = {}

(***************************************************************************)
(* C38: a replacement of line items that fails on an invalid item (one     *)
(* without quantity, unitPrice or productName, or with a null productName) *)
(* leaves the order with the line items and the totalAmount it had before  *)
(* the request.                                                            *)
(***************************************************************************)
HasInvalidItem(payload) ==
    /\ payload.k = "list"
    /\ \E i \in 1..Len(payload.items) :
           \/ ItemKeyError(payload.items[i])
           \/ payload.items[i].productName = NullStr

C38_FailedReplacementChangesNothing ==
    (Answered("updateInvoiceDetails", 400) /\ HasInvalidItem(runs[1].payload)) =>
        /\ ItemsOf(runs[1].order_id, details)
               = ItemsOf(runs[1].order_id, runs[1].before[1].details)
        /\ OrdersOf(runs[1].order_id, headers)
               = OrdersOf(runs[1].order_id, runs[1].before[1].headers)

\* Widget was added before the item without quantity raised KeyError; order
\* 1 still holds its two line items
C38_Witness ==
    /\ Answered("updateInvoiceDetails", 400)
    /\ runs[1].order_id = 1
    /\ runs[1].payload = List(<<Widget, WithoutQuantity>>)
    /\ ItemsOf(1, details) = StoredDetails
    /\ StoredOrder \in headers

(***************************************************************************)
(* C36: extractInvoiceData returns either a cleaned record without an      *)
(* 'error' key or a result with both 'error' and 'fallback_data', so the   *)
(* job never emits the 'error' event of processDocument's branch for an    *)
(* error without fallback data.                                            *)
(***************************************************************************)
CleanedKeys ==
    {"customer_name", "customer_email", "order_date", "invoice_number",
     "total_amount", "tax_amount", "shipping_address", "billing_address",
     "order_details"}

IsCleanedRecord(e) ==
    /\ DOMAIN e = CleanedKeys \cup {"extracted_text_preview"}
    /\ e.order_details.k = "list"

IsFallbackResult(e) ==
    /\ HasKey(e, "error")
    /\ HasKey(e, "fallback_data")
    /\ DOMAIN e.fallback_data = CleanedKeys

C36_TwoResultShapes ==
    \A j \in Jobs :
        extractedData[j] # NoData =>
            /\ IsCleanedRecord(extractedData[j]) \/ IsFallbackResult(extractedData[j])
            /\ \A i \in 1..Len(events[j]) :
                   events[j][i].status = "error" =>
                       events[j][i].message \in {"Database error", "Processing error"}

\* the normalizer raised on the model's record: the exception handler of
\* extractInvoiceData answered with fallback data and the job went on with it
C36_Witness ==
    \E j \in Jobs :
        /\ IsFallbackResult(extractedData[j])
        /\ extractedData[j].error = "exception"
        /\ data[j] = extractedData[j].fallback_data
        /\ HasStatus(j, "extracted")

(***************************************************************************)
(* C33: two concurrent jobs on documents with distinct invoice numbers do  *)
(* not interfere: what a job extracted, the statuses and records of its    *)
(* events and the header it stored are determined by its own document (and *)
(* by its own failures of the context or the database), as when it runs    *)
(* alone, and no event of a job carries the other job's record.            *)
(***************************************************************************)
\* what extractInvoiceData returns for the job's own document; the random
\* draw matters only to the fallback data of an 'error' result
OwnResults(j) ==
    LET any == CHOOSE rnd \in Draws : TRUE
        one == extractInvoiceData(doc[j], llmResponse[j], any, easyocrAvailable,
                                  clientAvailable, hashSeed).ret
    IN  IF ~HasKey(one, "error") THEN {one}
        ELSE { extractInvoiceData(doc[j], llmResponse[j], rnd, easyocrAvailable,
                                  clientAvailable, hashSeed).ret : rnd \in Draws }

DistinctInvoiceNumbers ==
    \A j, k \in AllJobs :
        j # k => RuleBasedOf(j).invoice_number # RuleBasedOf(k).invoice_number

\* the statuses of a job that runs alone on an empty store without failures
\* of the context or the database
StatusesAlone(j) ==
    IF /\ HeaderAccepted(SalesOrderHeader(data[j], 1), {})
       /\ \A i \in 1..Len(OrderDetailsOf(data[j])) :
              /\ ~DetailKeyError(OrderDetailsOf(data[j])[i])
              /\ DetailAccepted(SalesOrderDetail(OrderDetailsOf(data[j])[i], 1))
    THEN <<"processing", "extracted", "completed">>
    ELSE <<"processing", "extracted", "error">>

Carries(ev, rec) ==
    \/ ev.data = rec
    \/ /\ HasKey(ev.data, "invoice_number")
       /\ ev.data.invoice_number = rec.invoice_number
    \/ /\ HasKey(ev.data, "invoiceNumber")
       /\ ev.data.invoiceNumber = rec.invoice_number

StoredByAnother(j) ==
    { o \in headers \ WrittenHeaders(j) : o.invoiceNumber = data[j].invoice_number }

C37_InvoiceNumbersUnique ==
    /\ \A a, b \in headers : a.invoiceNumber = b.invoiceNumber => a = b
    /\ \A j \in AllJobs :
           (pc[j] = "done" /\ data[j] # NoData /\ StoredByAnother(j) # {}) =>
               /\ events[j][Len(events[j])].status = "error"
               /\ WrittenHeaders(j) = {}
               /\ WrittenDetails(j) = {}
               /\ \A k \in AllJobs \ {j} :
                      WrittenHeaders(k) # {} =>
                          WrittenHeaders(k)
                              = {SalesOrderHeader(data[k], order[k][1].orderId)}

\* the same document uploaded twice: the first job stored INV-100, the second
\* ended with 'error'
C37_Witness ==
    /\ doc["j1"] = doc["j2"]
    /\ pc["j1"] = "done" /\ pc["j2"] = "done"
    /\ StatusesOf("j1") = <<"processing", "extracted", "completed">>
    /\ StatusesOf("j2") = <<"processing", "extracted", "error">>
    /\ Cardinality(headers) = 1
    /\ \E o \in headers : o.invoiceNumber = "INV-100"

====
